---------------------------- MODULE Spec2Model ----------------------------
(***************************************************************************)
(* The chat relay of the MCP connector (src/mcp_pipe.py): one invocation   *)
(* of Pipe._handle_chat for a server record, with its dispatch to the      *)
(* Brave Search handler or to the general handler, the streaming pass      *)
(* (Pipe._try_streaming) and the non-streaming pass over the candidate     *)
(* URLs.                                                                   *)
(*                                                                         *)
(* Texts (urls, messages, bodies, results) are sequences of one-character  *)
(* strings, so that rstrip, lower, "in", startswith and concatenation are  *)
(* computed as Python computes them.  A JSON object is a record: a key is  *)
(* present when it is in the record's DOMAIN.                              *)
(***************************************************************************)
EXTENDS Integers, Sequences, FiniteSets, TLC

(***************************************************************************)
(* String literals of the source.                                          *)
(***************************************************************************)
\* mcp_pipe.py:117  "brave.com"
MarkerBrave ==
    << "b", "r", "a", "v", "e", ".", "c", "o", "m" >>

\* mcp_pipe.py:373  "Error:"
PrefixError ==
    << "E", "r", "r", "o", "r", ":" >>

\* mcp_pipe.py:348  "/chat/completions"
PathChat ==
    << "/", "c", "h", "a", "t", "/", "c", "o", "m", "p", "l", "e", "t", "i", "o", "n",
       "s" >>

\* mcp_pipe.py:349  "/v1/chat/completions"
PathV1Chat ==
    << "/", "v", "1", "/", "c", "h", "a", "t", "/", "c", "o", "m", "p", "l", "e", "t",
       "i", "o", "n", "s" >>

\* mcp_pipe.py:230  "/search"
PathSearch ==
    << "/", "s", "e", "a", "r", "c", "h" >>

\* mcp_pipe.py:123  "chat/completions"
EndpointChat ==
    << "c", "h", "a", "t", "/", "c", "o", "m", "p", "l", "e", "t", "i", "o", "n", "s" >>

\* mcp_pipe.py:122  "search"
EndpointSearch ==
    << "s", "e", "a", "r", "c", "h" >>

\* mcp_pipe.py:210
MsgNoQuery ==
    << "N", "o", " ", "s", "e", "a", "r", "c", "h", " ", "q", "u", "e", "r", "y", " ",
       "f", "o", "u", "n", "d", ".", " ", "P", "l", "e", "a", "s", "e", " ", "a", "s",
       "k", " ", "a", " ", "q", "u", "e", "s", "t", "i", "o", "n", " ", "o", "r", " ",
       "p", "r", "o", "v", "i", "d", "e", " ", "a", " ", "s", "e", "a", "r", "c", "h",
       " ", "t", "e", "r", "m", "." >>

\* mcp_pipe.py:258  text before the status
MsgBraveStatus ==
    << "E", "r", "r", "o", "r", " ", "s", "e", "a", "r", "c", "h", "i", "n", "g", " ",
       "w", "i", "t", "h", " ", "B", "r", "a", "v", "e", " ", "S", "e", "a", "r", "c",
       "h", ":", " " >>

\* mcp_pipe.py:307  text before str(e)
MsgBraveFailed ==
    << "E", "r", "r", "o", "r", ":", " ", "F", "a", "i", "l", "e", "d", " ", "t", "o",
       " ", "s", "e", "a", "r", "c", "h", " ", "w", "i", "t", "h", " ", "B", "r", "a",
       "v", "e", " ", "S", "e", "a", "r", "c", "h", ":", " " >>

\* mcp_pipe.py:438 and 542  text before the status
MsgConnStatus ==
    << "E", "r", "r", "o", "r", " ", "c", "o", "n", "n", "e", "c", "t", "i", "n", "g",
       " ", "t", "o", " ", "M", "C", "P", " ", "s", "e", "r", "v", "e", "r", ":", " " >>

\* mcp_pipe.py:438  " - " between the status and the body
MsgDash ==
    << " ", "-", " " >>

\* mcp_pipe.py:459
MsgNoViable ==
    << "E", "r", "r", "o", "r", ":", " ", "C", "o", "u", "l", "d", " ", "n", "o", "t",
       " ", "c", "o", "n", "n", "e", "c", "t", " ", "t", "o", " ", "M", "C", "P", " ",
       "s", "e", "r", "v", "e", "r", ".", " ", "T", "h", "e", " ", "s", "e", "r", "v",
       "e", "r", " ", "m", "a", "y", " ", "b", "e", " ", "u", "n", "a", "v", "a", "i",
       "l", "a", "b", "l", "e", " ", "o", "r", " ", "t", "h", "e", " ", "U", "R", "L",
       " ", "m", "a", "y", " ", "b", "e", " ", "i", "n", "c", "o", "r", "r", "e", "c",
       "t", "." >>

\* mcp_pipe.py:558
MsgStreamFailed ==
    << "E", "r", "r", "o", "r", ":", " ", "C", "o", "u", "l", "d", " ", "n", "o", "t",
       " ", "c", "o", "n", "n", "e", "c", "t", " ", "t", "o", " ", "M", "C", "P", " ",
       "s", "e", "r", "v", "e", "r", " ", "f", "o", "r", " ", "s", "t", "r", "e", "a",
       "m", "i", "n", "g", ".", " ", "T", "h", "e", " ", "s", "e", "r", "v", "e", "r",
       " ", "m", "a", "y", " ", "b", "e", " ", "u", "n", "a", "v", "a", "i", "l", "a",
       "b", "l", "e", " ", "o", "r", " ", "t", "h", "e", " ", "U", "R", "L", " ", "m",
       "a", "y", " ", "b", "e", " ", "i", "n", "c", "o", "r", "r", "e", "c", "t", "." >>

\* mcp_pipe.py:466  text before str(e)
MsgFailed ==
    << "E", "r", "r", "o", "r", ":", " ", "F", "a", "i", "l", "e", "d", " ", "t", "o",
       " ", "c", "o", "m", "m", "u", "n", "i", "c", "a", "t", "e", " ", "w", "i", "t",
       "h", " ", "t", "h", "e", " ", "M", "C", "P", " ", "s", "e", "r", "v", "e", "r",
       ":", " " >>

\* mcp_pipe.py:311 and 470
MsgDebugTraceback ==
    << "\n", "\n", "D", "e", "b", "u", "g", " ", "T", "r", "a", "c", "e", "b", "a", "c",
       "k", ":", "\n" >>

\* mcp_pipe.py:441
MsgDebugUrl ==
    << "\n", "U", "R", "L", ":", " " >>

\* mcp_pipe.py:441
MsgDebugHeaders ==
    << "\n", "H", "e", "a", "d", "e", "r", "s", ":", " " >>

\* mcp_pipe.py:441
MsgDebugPayload ==
    << "\n", "P", "a", "y", "l", "o", "a", "d", ":", " " >>

\* mcp_pipe.py:462
MsgDebugInfo ==
    << "\n", "\n", "D", "e", "b", "u", "g", " ", "i", "n", "f", "o", ":", "\n", "S", "e",
       "r", "v", "e", "r", " ", "U", "R", "L", ":", " " >>

\* mcp_pipe.py:462
MsgDebugTried ==
    << "\n", "T", "r", "i", "e", "d", " ", "U", "R", "L", "s", ":", " " >>

\* a generic server url
UrlA ==
    << "h", "t", "t", "p", ":", "/", "/", "a" >>

\* a generic server url with trailing slashes
UrlASlashes ==
    << "h", "t", "t", "p", ":", "/", "/", "a", "/", "/" >>

\* a url that misses the marker by one letter
UrlNearBrave ==
    << "h", "t", "t", "p", ":", "/", "/", "b", "r", "a", "v", "e", ".", "c", "o", "/" >>

\* a special-provider url written in capitals
UrlBraveUpper ==
    << "h", "t", "t", "p", ":", "/", "/", "B", "R", "A", "V", "E", ".", "c", "o", "m",
       "/" >>

\* a special-provider url in mixed case, with a path
UrlBraveMixed ==
    << "h", "t", "t", "p", ":", "/", "/", "x", ".", "B", "r", "a", "v", "e", ".", "C",
       "o", "m", "/", "v", "1" >>

\* a plain content text
TextHi ==
    << "H", "i" >>

\* a content text that begins like an error line
TextErrorX ==
    << "E", "r", "r", "o", "r", ":", " ", "x" >>

\* first half of a content text split over two chunks
TextErr ==
    << "E", "r", "r" >>

\* second half of a content text split over two chunks
TextOrColon ==
    << "o", "r", ":" >>

\* a user message
TextQuery ==
    << "q" >>

\* an error body
TextOops ==
    << "o", "o", "p", "s" >>

\* mcp_pipe.py:263  text before the query
MsgSearchHeader ==
    << "#", " ", "S", "e", "a", "r", "c", "h", " ", "R", "e", "s", "u", "l", "t", "s",
       " ", "f", "o", "r", ":", " " >>

\* mcp_pipe.py:263
MsgBlankLine ==
    << "\n", "\n" >>

\* mcp_pipe.py:267
MsgWebResults ==
    << "#", "#", " ", "W", "e", "b", " ", "R", "e", "s", "u", "l", "t", "s", "\n", "\n" >>

\* mcp_pipe.py:280
MsgNewsResults ==
    << "#", "#", " ", "N", "e", "w", "s", " ", "R", "e", "s", "u", "l", "t", "s", "\n",
       "\n" >>

\* mcp_pipe.py:274
MsgEntry ==
    << "#", "#", "#", " " >>

\* mcp_pipe.py:274
MsgDotSpace ==
    << ".", " " >>

\* mcp_pipe.py:274
MsgNewline ==
    << "\n" >>

\* mcp_pipe.py:276
MsgUrl ==
    << "U", "R", "L", ":", " " >>

\* mcp_pipe.py:270
DefaultTitle ==
    << "N", "o", " ", "T", "i", "t", "l", "e" >>

\* mcp_pipe.py:272
DefaultDescription ==
    << "N", "o", " ", "D", "e", "s", "c", "r", "i", "p", "t", "i", "o", "n" >>

\* mcp_pipe.py:508  "data: "
PrefixData ==
    << "d", "a", "t", "a", ":", " " >>

\* mcp_pipe.py:504  "data: [DONE]"
MarkerDone ==
    << "d", "a", "t", "a", ":", " ", "[", "D", "O", "N", "E", "]" >>

\* a body line that is no JSON: a keep-alive comment
TextPing ==
    << ":", " ", "p", "i", "n", "g" >>

\* the end marker without its prefix
TextDoneBare ==
    << "[", "D", "O", "N", "E", "]" >>

\* the prefix without its space
TextDataNoSpace ==
    << "d", "a", "t", "a", ":" >>

(***************************************************************************)
(* Texts the source formats from data the model does not follow character  *)
(* by character: str(e) of an exception, json.dumps of the headers and of  *)
(* the payload, the list of tried urls, a traceback.  Each is one opaque   *)
(* symbol; none of them is ever at the start of a text.                    *)
(***************************************************************************)
OpaqueException == << "<str(e)>" >>
OpaqueHeaders == << "<headers>" >>
OpaquePayload == << "<json.dumps(mcp_payload)>" >>
OpaqueUrls == << "<urls_to_try>" >>
OpaqueTraceback == << "<traceback>" >>

(***************************************************************************)
(* Python's str operations.                                                *)
(***************************************************************************)
UpperLetters ==
    << "A", "B", "C", "D", "E", "F", "G", "H", "I", "J", "K", "L", "M",
       "N", "O", "P", "Q", "R", "S", "T", "U", "V", "W", "X", "Y", "Z" >>

LowerLetters ==
    << "a", "b", "c", "d", "e", "f", "g", "h", "i", "j", "k", "l", "m",
       "n", "o", "p", "q", "r", "s", "t", "u", "v", "w", "x", "y", "z" >>

\* str.lower() on one character
LowerChar(c) ==
    IF \E i \in 1..Len(UpperLetters) : UpperLetters[i] = c
    THEN LowerLetters[CHOOSE i \in 1..Len(UpperLetters) : UpperLetters[i] = c]
    ELSE c

\* str.lower()
Lower(s) == [i \in 1..Len(s) |-> LowerChar(s[i])]

\* p in s
Contains(s, p) ==
    \E i \in 1..(Len(s) - Len(p) + 1) : SubSeq(s, i, i + Len(p) - 1) = p

\* s.startswith(p)
StartsWith(s, p) == Len(s) >= Len(p) /\ SubSeq(s, 1, Len(p)) = p

\* s.rstrip('/')
RECURSIVE RStripSlash(_)
RStripSlash(s) ==
    IF Len(s) > 0 /\ s[Len(s)] = "/" THEN RStripSlash(SubSeq(s, 1, Len(s) - 1)) ELSE s

\* the characters str.strip() removes
Whitespace == { " ", "\n", "\r", "\t" }

\* s.lstrip()
RECURSIVE LStrip(_)
LStrip(s) == IF Len(s) > 0 /\ s[1] \in Whitespace THEN LStrip(SubSeq(s, 2, Len(s))) ELSE s

\* s.rstrip()
RECURSIVE RStrip(_)
RStrip(s) ==
    IF Len(s) > 0 /\ s[Len(s)] \in Whitespace THEN RStrip(SubSeq(s, 1, Len(s) - 1)) ELSE s

\* s.strip()
Strip(s) == LStrip(RStrip(s))

Digits == << "0", "1", "2", "3", "4", "5", "6", "7", "8", "9" >>

\* str(n) of a natural number, as an f-string formats it
RECURSIVE NumStr(_)
NumStr(n) ==
    IF n < 10 THEN << Digits[n + 1] >> ELSE NumStr(n \div 10) \o << Digits[(n % 10) + 1] >>

(***************************************************************************)
(* Bounds of the model.                                                    *)
(***************************************************************************)
\* the longest streamed body, in lines
MaxLines == 2

(***************************************************************************)
(* Inputs: the server record read from the servers file, the valves, the   *)
(* request body, the progress sink, and what the servers answer.           *)
(***************************************************************************)
\* dict.get(key, default)
Get(obj, key, default) == IF key \in DOMAIN obj THEN obj[key] ELSE default

\* The records of the servers file: written by Pipe._add_server and
\* Pipe._add_popular_server (with "chat_endpoint"), by Action.add_server
\* (without it), and rewritten by Action.update_server, which replaces the url
\* of a record and keeps its "chat_endpoint".
ServerConfigs ==
    { [url |-> UrlA, chat_endpoint |-> EndpointChat],
      [url |-> UrlA, chat_endpoint |-> EndpointSearch],
      [url |-> UrlASlashes],
      [url |-> UrlNearBrave, chat_endpoint |-> EndpointChat],
      [url |-> UrlBraveUpper, chat_endpoint |-> EndpointSearch],
      [url |-> UrlBraveMixed, chat_endpoint |-> EndpointChat] }

UserTurn == [role |-> "user", content |-> TextQuery]

AssistantTurn == [role |-> "assistant", content |-> TextHi]

\* a "user" message whose content is the empty string
EmptyUserTurn == [role |-> "user", content |-> << >>]

Conversations ==
    { << AssistantTurn >>, << UserTurn, AssistantTurn >>, << UserTurn, EmptyUserTurn >> }

\* _event_emitter_: None, a callable that returns, a callable that may raise
Sinks == { "none", "ok", "flaky" }

\* HTTP statuses a server answers with, besides 200 and 404
ErrorStatuses == { 401, 500 }

\* Python's None, the value of a JSON null
None == << "<None>" >>

ChunkOf(text) == [choices |-> << [delta |-> [content |-> text]] >>]

\* The JSON documents of a streamed body.  The text of a document is one opaque
\* symbol; json.loads gives the value below for it and raises for any other text.
\* A value that is no object (a number) is marked by the key "scalar".
JsonDocs ==
    ("{Err}" :> ChunkOf(TextErr))
    @@ ("{or:}" :> ChunkOf(TextOrColon))
    @@ ("{role}" :> [choices |-> << [delta |-> [role |-> "assistant"]] >>])
    @@ ("{null}" :> ChunkOf(None))
    @@ ("{nodelta}" :> [choices |-> << [index |-> 0] >>])
    @@ ("{nochoices}" :> [id |-> 0])
    @@ ("{emptychoices}" :> [choices |-> << >>])
    @@ ("5" :> [scalar |-> 5])

\* the text of a JSON document
JsonText(doc) == << doc >>

\* a byte sequence that is no UTF-8
InvalidBytes == << "<0xE9>" >>

\* A line of a streamed body, as response.content yields it: a text before the
\* document, the document, the line end.
Line(prefix, doc) == prefix \o JsonText(doc) \o << "\n" >>

\* The lines of a streamed body: the [DONE] marker, a line that is no JSON, a chunk
\* without content, a chunk with content after "data: ", a chunk with content
\* without the prefix.
StreamLines ==
    { MarkerDone \o << "\n" >>,
      TextPing \o << "\n" >>,
      Line(PrefixData, "{role}"),
      Line(PrefixData, "{Err}"),
      Line(<< >>, "{or:}") }

RECURSIVE SeqsUpTo(_, _)
SeqsUpTo(S, n) ==
    IF n = 0 THEN { << >> }
    ELSE LET shorter == SeqsUpTo(S, n - 1)
         IN shorter \cup { Append(s, x) : s \in { q \in shorter : Len(q) = n - 1 }, x \in S }

\* The JSON documents of a non-streaming 200 answer.
ChatDocuments ==
    { [choices |-> << [message |-> [content |-> TextHi]] >>],
      [choices |-> << [message |-> [content |-> TextErrorX]] >>],
      [choices |-> << [index |-> 0] >>],
      [choices |-> << >>],
      [id |-> 0] }

NoDocument == [none |-> 0]

\* What one HTTP attempt meets.  sent = FALSE: session.post / session.get raised
\* (connection refused, timeout).  read = FALSE: the status arrived and reading the
\* body raised (connection lost, timeout, text that is no JSON).
NoAnswer ==
    [sent |-> FALSE, status |-> 0, read |-> FALSE, text |-> << >>, json |-> NoDocument, lines |-> << >>]

Answer(status, read, text, json, lines) ==
    [sent |-> TRUE, status |-> status, read |-> read, text |-> text, json |-> json, lines |-> lines]

\* the length the package Pipe cuts an error body to: error_text[:100]
MaxExcerpt == 100

\* an error body longer than that
LongBody == [i \in 1..(MaxExcerpt + 1) |-> "x"]

ErrorAnswers ==
    { Answer(404, FALSE, << >>, NoDocument, << >>) }
    \cup { Answer(s, FALSE, << >>, NoDocument, << >>) : s \in ErrorStatuses }
    \cup { Answer(s, TRUE, t, NoDocument, << >>) : s \in ErrorStatuses, t \in { TextOops, LongBody } }

ChatAnswers ==
    { NoAnswer } \cup ErrorAnswers
    \cup { Answer(200, FALSE, << >>, NoDocument, << >>) }
    \cup { Answer(200, TRUE, << >>, d, << >>) : d \in ChatDocuments }

\* A streamed 200 answer whose reading raised had delivered no line or one.
StreamAnswers ==
    { NoAnswer } \cup ErrorAnswers
    \cup { Answer(200, FALSE, << >>, NoDocument, b) : b \in SeqsUpTo(StreamLines, 1) }
    \cup { Answer(200, TRUE, << >>, NoDocument, b) : b \in SeqsUpTo(StreamLines, MaxLines) }

(***************************************************************************)
(* State.                                                                  *)
(***************************************************************************)
VARIABLES
    valves,         \* Pipe.valves: stream, debug
    server_config,  \* the server record of this chat turn
    body,           \* the request body: messages
    sink,           \* _event_emitter_
    pc,             \* where the invocation is
    urls_to_try,    \* the candidate URLs
    idx,            \* the candidate the loop is at
    payload_stream, \* mcp_payload["stream"]
    requests,       \* the HTTP requests issued, with what each met
    resp,           \* the answer handled last
    result,         \* what Pipe.pipe returned
    retsite,        \* the return statement that produced it
    open_contexts,  \* the "async with" contexts entered and not released, innermost last
    sink_called,    \* whether _event_emitter_ was called by this invocation
    body_lines,     \* the lines of a streamed body read so far
    full_response,  \* full_response of _try_streaming
    stream_state,   \* the line loop of _try_streaming: reading, aborted, returned
    headers,        \* headers of _handle_general_mcp
    mcp_payload,    \* mcp_payload of _handle_general_mcp
    servers,        \* the servers file (mcp-servers.json): server id -> record
    active_server,  \* "active_server" of the configuration file (mcp-config.json)
    issued,         \* the server ids uuid.uuid4() has given so far
    call,           \* the store operation called last, with its arguments
    reply           \* what it returned

\* the chat relay
relay_vars ==
    << valves, server_config, body, sink, pc, urls_to_try, idx, payload_stream,
       requests, resp, result, retsite, open_contexts, sink_called >>

\* the line loop of _try_streaming, line by line
stream_vars == << body_lines, full_response, stream_state >>

\* the request _handle_general_mcp prepares
payload_vars == << headers, mcp_payload >>

\* the two files of the store and the operation run on them last
store_vars == << servers, active_server, issued, call, reply >>

\* what the chat relay leaves alone
other_vars == << stream_vars, payload_vars, store_vars >>

vars == << relay_vars, other_vars >>

NoResult == << "<none>" >>

\* the line loop is followed on its own, not during a relay invocation
StreamIdle ==
    /\ body_lines = << >>
    /\ full_response = << >>
    /\ stream_state = "idle"

\* the request is followed on its own, not during a relay invocation
NoPayload == [none |-> 0]

PayloadIdle ==
    /\ headers = NoPayload
    /\ mcp_payload = NoPayload

\* no store operation was called
NoCall ==
    [op |-> "none", server_id |-> None, name |-> None, url |-> None,
     api_key |-> None, default_model |-> None]

\* the store before its files exist: load_mcp_servers() is {} and
\* load_mcp_config() is {"active_server": ""}
StoreIdle ==
    /\ servers = << >>
    /\ active_server = << >>
    /\ issued = { }
    /\ call = NoCall
    /\ reply = NoResult

Init ==
    /\ valves \in [stream : BOOLEAN, debug : BOOLEAN]
    /\ server_config \in ServerConfigs
    /\ body \in [messages : Conversations]
    /\ sink \in Sinks
    /\ pc = "handle_chat"
    /\ urls_to_try = << >>
    /\ idx = 0
    /\ payload_stream = FALSE
    /\ requests = << >>
    /\ resp = NoAnswer
    /\ result = NoResult
    /\ retsite = "none"
    /\ open_contexts = << >>
    /\ sink_called = FALSE
    /\ StreamIdle
    /\ PayloadIdle
    /\ StoreIdle

(***************************************************************************)
(* The decisions of the relay, each as the source takes it.                *)
(***************************************************************************)
\* is_brave_search without the lower(): a marker in capitals is missed
is_brave_search_exact_case(server_url) == Contains(server_url, MarkerBrave)

\* is_brave_search(server_url)
is_brave_search(server_url) == Contains(Lower(server_url), MarkerBrave)

\* get_chat_endpoint(server_url)
get_chat_endpoint(server_url) ==
    IF is_brave_search(server_url) THEN EndpointSearch ELSE EndpointChat

\* three candidates, the last one the server url itself
UrlsToTryThree(server_url) ==
    << RStripSlash(server_url) \o PathChat, RStripSlash(server_url) \o PathV1Chat,
       RStripSlash(server_url) >>

\* urls_to_try of _handle_general_mcp
UrlsToTry(server_url) ==
    << RStripSlash(server_url) \o PathChat, RStripSlash(server_url) \o PathV1Chat >>

\* search_url of _handle_brave_search
SearchUrl(server_url) == RStripSlash(server_url) \o PathSearch

\* mcp_payload["stream"] as _handle_general_mcp first builds it
PayloadStream(v) == v.stream

\* the streaming pass entered whatever the valve says
StreamingAlways(v) == TRUE

\* "First try with streaming if enabled"
StreamingEnabled(v) == v.stream

\* streaming_result.startswith("Error:")
StreamingFailed(streaming_result) == StartsWith(streaming_result, PrefixError)

\* a server error (5xx) skipped like a 404
ShowsClientErrorOnly(status) == status # 404 /\ status < 500

\* "If got an error other than 404, show it", for a status that is not 200
ShowsError(status) == status # 404

\* "choices" in response_json and len(response_json["choices"]) > 0
HasChoices(response_json) ==
    "choices" \in DOMAIN response_json /\ Len(response_json["choices"]) > 0

\* response_json["choices"][0].get("message", {}).get("content", "")
MessageContent(response_json) ==
    Get(Get(response_json["choices"][1], "message", << >>), "content", << >>)

\* line.decode('utf-8') succeeds
Decodes(line) == \A i \in 1..Len(line) : line[i] # InvalidBytes[1]

\* json.loads(text) succeeds
JsonParses(text) == Len(Strip(text)) = 1 /\ Strip(text)[1] \in DOMAIN JsonDocs

\* json.loads(text)
json_loads(text) == JsonDocs[Strip(text)[1]]

\* What one line of a streamed body adds to full_response.
LineContent(line) ==
    LET stripped == Strip(line)
        payload == IF StartsWith(stripped, PrefixData)
                   THEN SubSeq(stripped, Len(PrefixData) + 1, Len(stripped))
                   ELSE stripped
    IN IF stripped = << >> \/ stripped = MarkerDone
       THEN << >>                       \* "Skip empty lines and [DONE] marker"
       ELSE IF ~JsonParses(payload)
       THEN << >>                       \* json.loads raised: the line is skipped
       ELSE LET chunk == json_loads(payload)
            IN IF "scalar" \in DOMAIN chunk
               THEN << >>               \* "choices" in chunk raised: skipped
               ELSE IF "choices" \in DOMAIN chunk /\ Len(chunk["choices"]) > 0
               THEN LET delta == Get(chunk["choices"][1], "delta", << >>)
                    IN IF "content" \in DOMAIN delta
                       THEN IF delta["content"] = None
                            THEN << >>  \* full_response += None raised: skipped
                            ELSE delta["content"]
                       ELSE << >>
               ELSE << >>

\* full_response after the whole body
RECURSIVE FullResponse(_)
FullResponse(lines) ==
    IF lines = << >> THEN << >>
    ELSE FullResponse(SubSeq(lines, 1, Len(lines) - 1)) \o LineContent(lines[Len(lines)])

\* the content of the first "user" message rather than of the last
FirstUserMessage(messages) ==
    IF \E i \in 1..Len(messages) : Get(messages[i], "role", "") = "user"
    THEN Get(messages[CHOOSE i \in 1..Len(messages) :
                         /\ Get(messages[i], "role", "") = "user"
                         /\ \A j \in 1..(i - 1) : Get(messages[j], "role", "") # "user"],
             "content", << >>)
    ELSE << >>

\* user_message of _handle_brave_search: the content of the last "user" message
RECURSIVE LastUserMessage(_)
LastUserMessage(messages) ==
    IF messages = << >> THEN << >>
    ELSE LET msg == messages[Len(messages)]
         IN IF Get(msg, "role", "") = "user" THEN Get(msg, "content", << >>)
            ELSE LastUserMessage(SubSeq(messages, 1, Len(messages) - 1))

(***************************************************************************)
(* The texts the relay returns.                                            *)
(***************************************************************************)
\* error_details of _handle_general_mcp
FailedText(v) ==
    MsgFailed \o OpaqueException
    \o (IF v.debug THEN MsgDebugTraceback \o OpaqueTraceback ELSE << >>)

\* error_details of _handle_brave_search
BraveFailedText(v) ==
    MsgBraveFailed \o OpaqueException
    \o (IF v.debug THEN MsgDebugTraceback \o OpaqueTraceback ELSE << >>)

\* the error line of _try_streaming for a status other than 200 and 404
StreamErrorText(status, error_text) ==
    MsgConnStatus \o NumStr(status) \o MsgDash \o error_text

\* error_message of the non-streaming loop
ErrorMessage(v, url, status, error_text) ==
    MsgConnStatus \o NumStr(status) \o MsgDash \o error_text
    \o (IF v.debug
        THEN MsgDebugUrl \o url \o MsgDebugHeaders \o OpaqueHeaders
             \o MsgDebugPayload \o OpaquePayload
        ELSE << >>)

\* error_msg after the non-streaming loop
NoViableText(v, server_url) ==
    MsgNoViable
    \o (IF v.debug THEN MsgDebugInfo \o server_url \o MsgDebugTried \o OpaqueUrls ELSE << >>)

\* the error line of _handle_brave_search for a status other than 200
BraveErrorText(status, error_text) ==
    MsgBraveStatus \o NumStr(status) \o MsgDash \o error_text

(***************************************************************************)
(* The Brave Search answers and their formatting.                          *)
(***************************************************************************)
ResultFull == [title |-> << "T" >>, url |-> << "u" >>, description |-> << "d" >>]

ResultBare == [url |-> << "v" >>]

SearchDocuments ==
    { [query |-> 0],
      [news |-> [results |-> << >>]],
      [web |-> [results |-> << ResultFull, ResultBare >>]],
      [web |-> [results |-> << ResultBare, ResultFull >>],
       news |-> [results |-> << ResultFull >>]] }

BraveAnswers ==
    { NoAnswer }
    \cup { Answer(s, FALSE, << >>, NoDocument, << >>) : s \in ErrorStatuses \cup { 200, 404 } }
    \cup { Answer(s, TRUE, TextOops, NoDocument, << >>) : s \in ErrorStatuses \cup { 404 } }
    \cup { Answer(200, TRUE, << >>, d, << >>) : d \in SearchDocuments }

\* one entry of a section: "### {i}. {title}\n{description}\nURL: {url}\n\n"
FormatEntry(i, r) ==
    MsgEntry \o NumStr(i) \o MsgDotSpace \o Get(r, "title", DefaultTitle) \o MsgNewline
    \o Get(r, "description", DefaultDescription) \o MsgNewline
    \o MsgUrl \o Get(r, "url", << >>) \o MsgBlankLine

\* for i, result in enumerate(results, 1), up to entry n
RECURSIVE FormatEntries(_, _)
FormatEntries(results, n) ==
    IF n = 0 THEN << >>
    ELSE FormatEntries(results, n - 1) \o FormatEntry(n, results[n])

\* one section, when the document has it
FormatSection(search_results, key, title) ==
    IF key \in DOMAIN search_results /\ "results" \in DOMAIN search_results[key]
    THEN title \o FormatEntries(search_results[key]["results"],
                                Len(search_results[key]["results"]))
    ELSE << >>

\* the news section put before the web section
FormatBraveNewsFirst(user_message, search_results) ==
    MsgSearchHeader \o user_message \o MsgBlankLine
    \o FormatSection(search_results, "news", MsgNewsResults)
    \o FormatSection(search_results, "web", MsgWebResults)

\* response_text of _handle_brave_search
FormatBrave(user_message, search_results) ==
    MsgSearchHeader \o user_message \o MsgBlankLine
    \o FormatSection(search_results, "web", MsgWebResults)
    \o FormatSection(search_results, "news", MsgNewsResults)

(***************************************************************************)
(* Control.                                                                *)
(***************************************************************************)
\* "if <cond> and _event_emitter_: await _event_emitter_(...)": the call is made
\* when the sink is there, and a sink may raise at any call.
EmitResults(cond) == IF cond /\ sink = "flaky" THEN { "ok", "raise" } ELSE { "ok" }

\* __aexit__ of "async with": the context is released only when no exception
\* leaves the block
ReleasedUnlessRaised(context, how) == how # "raise"

\* __aexit__ of "async with ... as session" and "async with ... as response":
\* the context is released however the block is left (its end, continue,
\* return, an exception)
Released(context, how) == TRUE

\* the contexts still held when the with blocks above the first `keep` are left
Leave(held, keep, how) ==
    SubSeq(held, 1, keep)
        \o SelectSeq(SubSeq(held, keep + 1, Len(held)), LAMBDA c : ~Released(c, how))

\* how this step leaves the with blocks it was in: by a return statement, by an
\* exception (the returns of the except handlers at 313 and 472, and the except
\* handlers of the loops), or at the end of the block (404, no choices)
HowLeft ==
    IF pc' = "done"
    THEN IF retsite' \in { "L313", "L472", "raised" } THEN "raise" ELSE "return"
    ELSE IF pc' = "non_streaming" /\ pc = "streaming_wait" THEN "return"
         ELSE IF requests' # << >> /\ requests'[Len(requests')].met \in { "404", "200_empty" }
              THEN "continue"
              ELSE "raise"

\* the contexts after the step: a return or an exception that reaches the outer
\* except leaves every with block, anything else stays inside the session block
WithBlocks(held) ==
    open_contexts' = Leave(held, IF pc' = "done" THEN 0 ELSE 1, HowLeft)

\* "async with session.get/post(...) as response": entered when the request was
\* answered
WithResponse == IF resp'.sent THEN Append(open_contexts, "response") ELSE open_contexts

Goto(p, i, ps) ==
    /\ pc' = p
    /\ idx' = i
    /\ payload_stream' = ps
    /\ UNCHANGED << result, retsite >>

\* a return statement whose value Pipe.pipe returns
Return(text, site) ==
    /\ pc' = "done"
    /\ result' = text
    /\ retsite' = site
    /\ UNCHANGED << idx, payload_stream >>

\* an exception that leaves Pipe.pipe
Raise ==
    /\ pc' = "done"
    /\ result' = NoResult
    /\ retsite' = "raised"
    /\ UNCHANGED << idx, payload_stream >>

\* what a request met, for the log
Met(a, chat) ==
    IF ~a.sent THEN "transport"
    ELSE IF a.status = 200
         THEN IF ~a.read THEN "200_unread"
              ELSE IF chat /\ ~HasChoices(a.json) THEN "200_empty" ELSE "200"
         ELSE IF a.status = 404 THEN "404"
         ELSE IF a.read THEN "error" ELSE "error_unread"

Issue(method, url, stream) ==
    requests' = Append(requests, [method |-> method, url |-> url, stream |-> stream,
                                  met |-> "pending", status |-> 0])

Answered(a, chat) ==
    /\ resp' = a
    /\ requests' = [requests EXCEPT ![Len(requests)].met = Met(a, chat),
                                    ![Len(requests)].status = a.status]

\* Pipe._handle_chat, from the server record on: the status event, the dispatch
HandleChat ==
    /\ pc = "handle_chat"
    /\ \E e \in EmitResults(TRUE) :
          IF e = "raise" THEN Raise
          ELSE IF is_brave_search(Get(server_config, "url", << >>))
               THEN Goto("brave_search", idx, payload_stream)
               ELSE Goto("general_mcp", idx, payload_stream)
    /\ sink_called' = (sink # "none")
    /\ UNCHANGED << valves, server_config, body, sink, urls_to_try, requests, resp,
                    open_contexts >>
    /\ UNCHANGED other_vars

\* Pipe._handle_brave_search, up to its request
HandleBraveSearch ==
    /\ pc = "brave_search"
    /\ LET server_url == Get(server_config, "url", << >>)
           user_message == LastUserMessage(body.messages)
       IN IF user_message = << >>
          THEN Return(MsgNoQuery, "L210") /\ UNCHANGED requests
          ELSE \E e \in EmitResults(valves.debug) :
                  IF e = "raise"
                  THEN Return(BraveFailedText(valves), "L313") /\ UNCHANGED requests
                  ELSE /\ Issue("GET", SearchUrl(server_url), FALSE)
                       /\ Goto("brave_wait", idx, payload_stream)
    /\ IF retsite' = "L210" THEN UNCHANGED open_contexts
       ELSE WithBlocks(Append(open_contexts, "session"))
    /\ UNCHANGED << valves, server_config, body, sink, sink_called, urls_to_try, resp >>
    /\ UNCHANGED other_vars

\* Pipe._handle_brave_search, from the answer of its request on
BraveResponse ==
    /\ pc = "brave_wait"
    /\ \E a \in BraveAnswers :
          /\ Answered(a, FALSE)
          /\ IF ~a.sent THEN Return(BraveFailedText(valves), "L313")
             ELSE IF a.status # 200
                  THEN IF a.read THEN Return(BraveErrorText(a.status, a.text), "L258")
                       ELSE Return(BraveFailedText(valves), "L313")
                  ELSE IF ~a.read THEN Return(BraveFailedText(valves), "L313")
                       ELSE \E e \in EmitResults(TRUE) :
                               IF e = "raise" THEN Return(BraveFailedText(valves), "L313")
                               ELSE Return(FormatBrave(LastUserMessage(body.messages), a.json),
                                           "L304")
    /\ WithBlocks(WithResponse)
    /\ UNCHANGED << valves, server_config, body, sink, sink_called, urls_to_try >>
    /\ UNCHANGED other_vars

\* Pipe._handle_general_mcp, up to the first pass: the payload, the candidates,
\* the debug event, the choice of the pass
HandleGeneralMcp ==
    /\ pc = "general_mcp"
    /\ urls_to_try' = UrlsToTry(Get(server_config, "url", << >>))
    /\ \E e \in EmitResults(valves.debug) :
          IF e = "raise"
          THEN /\ Return(FailedText(valves), "L472")
          ELSE IF StreamingEnabled(valves)
               THEN Goto("try_streaming", 1, PayloadStream(valves))
               ELSE Goto("non_streaming", 1, FALSE)
    /\ WithBlocks(Append(open_contexts, "session"))
    /\ UNCHANGED << valves, server_config, body, sink, sink_called, requests, resp >>
    /\ UNCHANGED other_vars

\* an except handler that tries the same url again
ExceptHandlerRetry(loop) == Goto(loop, idx, payload_stream)

\* "except Exception as e" of either loop: the hidden status event, then the next
\* url; an exception of the sink leaves the loop and reaches the outer except of
\* _handle_general_mcp
ExceptHandler(loop) ==
    \E e \in EmitResults(TRUE) :
        IF e = "raise" THEN Return(FailedText(valves), "L472")
        ELSE Goto(loop, idx + 1, payload_stream)

\* _handle_general_mcp after _try_streaming returned streaming_result
StreamingReturned(streaming_result) ==
    IF ~StreamingFailed(streaming_result) THEN Return(streaming_result, "L374")
    ELSE \E e \in EmitResults(valves.debug) :
            IF e = "raise" THEN Return(FailedText(valves), "L472")
            ELSE Goto("non_streaming", 1, FALSE)

\* Pipe._try_streaming: one turn of the loop, up to its request
TryStreamingPost ==
    /\ pc = "try_streaming"
    /\ idx <= Len(urls_to_try)
    /\ \E e \in EmitResults(valves.debug) :
          IF e = "raise" THEN ExceptHandler("try_streaming") /\ UNCHANGED requests
          ELSE /\ Issue("POST", urls_to_try[idx], payload_stream)
               /\ Goto("streaming_wait", idx, payload_stream)
    /\ WithBlocks(open_contexts)
    /\ UNCHANGED << valves, server_config, body, sink, sink_called, urls_to_try, resp >>
    /\ UNCHANGED other_vars

\* Pipe._try_streaming: one turn of the loop, from the answer on
TryStreamingResponse ==
    /\ pc = "streaming_wait"
    /\ \E a \in StreamAnswers :
          /\ Answered(a, FALSE)
          /\ IF ~a.sent THEN ExceptHandler("try_streaming")
             ELSE IF a.status = 200
                  THEN IF ~a.read THEN ExceptHandler("try_streaming")
                       ELSE \E e \in EmitResults(TRUE) :
                               IF e = "raise" THEN ExceptHandler("try_streaming")
                               ELSE StreamingReturned(FullResponse(a.lines))
                  ELSE IF ShowsError(a.status)
                       THEN IF a.read
                            THEN StreamingReturned(StreamErrorText(a.status, a.text))
                            ELSE ExceptHandler("try_streaming")
                       ELSE Goto("try_streaming", idx + 1, payload_stream)
    /\ WithBlocks(WithResponse)
    /\ UNCHANGED << valves, server_config, body, sink, sink_called, urls_to_try >>
    /\ UNCHANGED other_vars

\* Pipe._try_streaming after its loop: "all URLs failed for streaming"
TryStreamingExhausted ==
    /\ pc = "try_streaming"
    /\ idx > Len(urls_to_try)
    /\ StreamingReturned(MsgStreamFailed)
    /\ WithBlocks(open_contexts)
    /\ UNCHANGED << valves, server_config, body, sink, sink_called, urls_to_try, requests, resp >>
    /\ UNCHANGED other_vars

\* the non-streaming loop of _handle_general_mcp: one turn, up to its request
NonStreamingPost ==
    /\ pc = "non_streaming"
    /\ idx <= Len(urls_to_try)
    /\ \E e \in EmitResults(valves.debug) :
          IF e = "raise" THEN ExceptHandler("non_streaming") /\ UNCHANGED requests
          ELSE /\ Issue("POST", urls_to_try[idx], payload_stream)
               /\ Goto("non_streaming_wait", idx, payload_stream)
    /\ WithBlocks(open_contexts)
    /\ UNCHANGED << valves, server_config, body, sink, sink_called, urls_to_try, resp >>
    /\ UNCHANGED other_vars

\* a 200 answer without choices returned as a placeholder text
NoChoicesPlaceholder == Return(<< "N", "o", " ", "c", "o", "n", "t", "e", "n", "t" >>, "L433")

\* "continue  # Try next URL if no content received"
NoChoices == Goto("non_streaming", idx + 1, payload_stream)

\* the non-streaming loop of _handle_general_mcp: one turn, from the answer on
NonStreamingResponse ==
    /\ pc = "non_streaming_wait"
    /\ \E a \in ChatAnswers :
          /\ Answered(a, TRUE)
          /\ IF ~a.sent THEN ExceptHandler("non_streaming")
             ELSE IF a.status = 200
                  THEN IF ~a.read THEN ExceptHandler("non_streaming")
                       ELSE IF HasChoices(a.json)
                            THEN \E e \in EmitResults(TRUE) :
                                    IF e = "raise" THEN ExceptHandler("non_streaming")
                                    ELSE Return(MessageContent(a.json), "L431")
                            ELSE NoChoices
                  ELSE IF ShowsError(a.status)
                       THEN IF a.read
                            THEN Return(ErrorMessage(valves, urls_to_try[idx], a.status, a.text),
                                        "L443")
                            ELSE ExceptHandler("non_streaming")
                       ELSE Goto("non_streaming", idx + 1, payload_stream)
    /\ WithBlocks(WithResponse)
    /\ UNCHANGED << valves, server_config, body, sink, sink_called, urls_to_try >>
    /\ UNCHANGED other_vars

\* _handle_general_mcp after the non-streaming loop: "all URLs failed"
NonStreamingExhausted ==
    /\ pc = "non_streaming"
    /\ idx > Len(urls_to_try)
    /\ Return(NoViableText(valves, Get(server_config, "url", << >>)), "L464")
    /\ WithBlocks(open_contexts)
    /\ UNCHANGED << valves, server_config, body, sink, sink_called, urls_to_try, requests, resp >>
    /\ UNCHANGED other_vars

Next ==
    \/ HandleChat
    \/ HandleBraveSearch
    \/ BraveResponse
    \/ HandleGeneralMcp
    \/ TryStreamingPost
    \/ TryStreamingResponse
    \/ TryStreamingExhausted
    \/ NonStreamingPost
    \/ NonStreamingResponse
    \/ NonStreamingExhausted

Spec == Init /\ [][Next]_vars

\* the relay where every step that can be taken is taken in the end: each
\* request is answered or fails before the ClientTimeout it was given, and the
\* progress sink returns or raises
InitLive ==
    /\ valves \in [stream : BOOLEAN, debug : { FALSE }]
    /\ server_config \in { [url |-> UrlASlashes],
                           [url |-> UrlBraveUpper, chat_endpoint |-> EndpointSearch] }
    /\ body \in [messages : { << AssistantTurn >>, << UserTurn, AssistantTurn >> }]
    /\ sink \in { "none", "flaky" }
    /\ pc = "handle_chat"
    /\ urls_to_try = << >>
    /\ idx = 0
    /\ payload_stream = FALSE
    /\ requests = << >>
    /\ resp = NoAnswer
    /\ result = NoResult
    /\ retsite = "none"
    /\ open_contexts = << >>
    /\ sink_called = FALSE
    /\ StreamIdle
    /\ PayloadIdle
    /\ StoreIdle

SpecLive == InitLive /\ [][Next]_vars /\ WF_vars(Next)

(***************************************************************************)
(* The line loop of Pipe._try_streaming, line by line: the body of one     *)
(* candidate that answered 200, whatever its lines are.                    *)
(***************************************************************************)
\* the longest body followed line by line
MaxBody == 2

\* The lines of a body followed line by line: those of StreamLines, blank lines,
\* the marker without its prefix and with spaces around it, the prefix without
\* its space, with two spaces and twice, a null content, a number, chunks without
\* delta, without choices and with no choice, and a line that is no UTF-8.
BodyLines ==
    StreamLines
    \cup { << "\n" >>,
           << "\r", "\n" >>,
           TextDoneBare \o << "\n" >>,
           << " " >> \o MarkerDone \o << " ", "\r", "\n" >>,
           Line(TextDataNoSpace, "{Err}"),
           Line(PrefixData \o << " " >>, "{Err}"),
           Line(PrefixData \o PrefixData, "{Err}"),
           Line(PrefixData, "{null}"),
           Line(PrefixData, "5"),
           Line(PrefixData, "{nodelta}"),
           Line(PrefixData, "{nochoices}"),
           Line(PrefixData, "{emptychoices}"),
           PrefixData \o InvalidBytes \o << "\n" >> }

\* no relay invocation is followed
RelayIdle ==
    /\ valves = [stream |-> TRUE, debug |-> FALSE]
    /\ server_config = [url |-> UrlA]
    /\ body = [messages |-> << UserTurn >>]
    /\ sink = "none"
    /\ pc = "idle"
    /\ urls_to_try = << >>
    /\ idx = 0
    /\ payload_stream = FALSE
    /\ requests = << >>
    /\ resp = NoAnswer
    /\ result = NoResult
    /\ retsite = "none"
    /\ open_contexts = << >>
    /\ sink_called = FALSE

\* "if response.status == 200: full_response = ''"
InitStream ==
    /\ RelayIdle
    /\ body_lines = << >>
    /\ full_response = << >>
    /\ stream_state = "reading"
    /\ PayloadIdle
    /\ StoreIdle

\* one turn of "async for line in response.content" for a line that decodes
ReadLine ==
    /\ stream_state = "reading"
    /\ Len(body_lines) < MaxBody
    /\ \E line \in BodyLines :
          /\ Decodes(line)
          /\ body_lines' = Append(body_lines, line)
          /\ full_response' = full_response \o LineContent(line)
    /\ UNCHANGED << stream_state, relay_vars, payload_vars, store_vars >>

\* one turn for a line that is no UTF-8: line.decode raises outside the inner try,
\* the exception leaves the loop and reaches "except Exception as e" of the url loop
ReadInvalidLine ==
    /\ stream_state = "reading"
    /\ Len(body_lines) < MaxBody
    /\ \E line \in BodyLines :
          /\ ~Decodes(line)
          /\ body_lines' = Append(body_lines, line)
    /\ stream_state' = "aborted"
    /\ UNCHANGED << full_response, relay_vars, payload_vars, store_vars >>

\* the body ends: "return full_response"
EndOfBody ==
    /\ stream_state = "reading"
    /\ stream_state' = "returned"
    /\ UNCHANGED << body_lines, full_response, relay_vars, payload_vars, store_vars >>

NextStream ==
    \/ ReadLine
    \/ ReadInvalidLine
    \/ EndOfBody

SpecStream == InitStream /\ [][NextStream]_vars

(***************************************************************************)
(* The request Pipe._handle_general_mcp prepares: the headers and the       *)
(* payload, from the request body, the valves and the server record.       *)
(***************************************************************************)
\* "max_tokens": body.get("max_tokens", 1000)
DefaultMaxTokens == 1000

\* the request bodies: "model" absent, null, empty or given; "max_tokens" absent or given
PayloadBodies ==
    { [messages |-> m] : m \in Conversations }
    \cup { [messages |-> m, model |-> x] :
              m \in Conversations, x \in { None, << >>, << "b", "m" >> } }
    \cup { [messages |-> << UserTurn >>, model |-> << "b", "m" >>, max_tokens |-> 5] }

\* the valves: default_model empty or given
PayloadValves ==
    [stream : BOOLEAN, debug : { FALSE }, default_model : { << >>, << "v", "m" >> }]

\* the server records: "default_model" absent, empty or given, "api_key" absent,
\* empty or given, the url generic or of the special provider
PayloadConfigs ==
    { [url |-> UrlA, api_key |-> << >>] }
    \cup { [url |-> UrlA, api_key |-> k, default_model |-> x] :
              k \in { << >>, << "k" >> }, x \in { << >>, << "r", "m" >> } }
    \cup { [url |-> UrlBraveUpper] }
    \cup { [url |-> UrlBraveUpper, api_key |-> k] : k \in { << >>, << "k" >> } }

\* "if not model": None and the empty text are false
Falsy(x) == x = None \/ x = << >>

\* the model sent when body has none: the record's default_model, the valve skipped
ModelWithoutValve(b, v, cfg) ==
    IF "model" \in DOMAIN b /\ ~Falsy(b["model"]) THEN b["model"]
    ELSE Get(cfg, "default_model", << >>)

\* model of _handle_general_mcp
Model(b, v, cfg) ==
    LET model == Get(b, "model", v.default_model)
    IN IF Falsy(model) THEN Get(cfg, "default_model", << >>) ELSE model

\* headers of _handle_general_mcp
Headers(cfg) ==
    IF Falsy(Get(cfg, "api_key", << >>))
    THEN [content_type |-> "application/json"]
    ELSE [content_type |-> "application/json",
          authorization |-> << "B", "e", "a", "r", "e", "r", " " >> \o cfg["api_key"]]

\* headers of _handle_brave_search, the key under the generic path's header name
BraveHeadersBearer(api_key) ==
    IF Falsy(api_key)
    THEN [content_type |-> "application/json", accept |-> "application/json"]
    ELSE [content_type |-> "application/json", accept |-> "application/json",
          authorization |-> << "B", "e", "a", "r", "e", "r", " " >> \o api_key]

\* headers of _handle_brave_search
BraveHeaders(api_key) ==
    IF Falsy(api_key)
    THEN [content_type |-> "application/json", accept |-> "application/json"]
    ELSE [content_type |-> "application/json", accept |-> "application/json",
          x_subscription_token |-> api_key]

\* "count": 5
BraveCount == 5

\* search_payload of _handle_brave_search, sent as the query of the GET
SearchPayload(user_message) == [q |-> user_message, count |-> BraveCount]

\* mcp_payload of _handle_general_mcp
McpPayload(b, v, cfg) ==
    [messages |-> Get(b, "messages", << >>),
     model |-> Model(b, v, cfg),
     temperature |-> Get(b, "temperature", "0.7"),
     max_tokens |-> Get(b, "max_tokens", DefaultMaxTokens),
     stream |-> v.stream]

InitPayload ==
    /\ valves \in PayloadValves
    /\ server_config \in PayloadConfigs
    /\ body \in PayloadBodies
    /\ sink = "none"
    /\ pc = "prepare"
    /\ urls_to_try = << >>
    /\ idx = 0
    /\ payload_stream = FALSE
    /\ requests = << >>
    /\ resp = NoAnswer
    /\ result = NoResult
    /\ retsite = "none"
    /\ open_contexts = << >>
    /\ sink_called = FALSE
    /\ StreamIdle
    /\ PayloadIdle
    /\ StoreIdle

\* _handle_chat's dispatch to _handle_general_mcp, and that handler from its entry
\* to the payload
PreparePayload ==
    /\ pc = "prepare"
    /\ ~is_brave_search(Get(server_config, "url", << >>))
    /\ headers' = Headers(server_config)
    /\ mcp_payload' = McpPayload(body, valves, server_config)
    /\ pc' = "prepared"
    /\ payload_stream' = PayloadStream(valves)
    /\ UNCHANGED << valves, server_config, body, sink, sink_called, urls_to_try, idx, requests, resp,
                    result, retsite, open_contexts, stream_vars, store_vars >>

\* _handle_chat's dispatch to _handle_brave_search, and that handler from its entry
\* to the headers and the query of its request
PrepareBraveSearch ==
    /\ pc = "prepare"
    /\ is_brave_search(Get(server_config, "url", << >>))
    /\ LET api_key == Get(server_config, "api_key", << >>)
           user_message == LastUserMessage(body.messages)
       IN IF user_message = << >>
          THEN pc' = "no_query" /\ UNCHANGED << headers, mcp_payload >>
          ELSE /\ headers' = BraveHeaders(api_key)
               /\ mcp_payload' = SearchPayload(user_message)
               /\ pc' = "brave_prepared"
    /\ UNCHANGED << valves, server_config, body, sink, sink_called, urls_to_try, idx, requests, resp,
                    result, retsite, open_contexts, payload_stream, stream_vars, store_vars >>

NextPayload == PreparePayload \/ PrepareBraveSearch

SpecPayload == InitPayload /\ [][NextPayload]_vars
(***************************************************************************)
(* The server store: the servers file and the configuration file, and the  *)
(* operations of Pipe (mcp_pipe.py) and Action (mcp_action.py) that add    *)
(* and update records, run one after another.  In the texts returned, the  *)
(* element "<backquote>" stands for the backquote character, which a       *)
(* string of this language cannot hold.                                    *)
(***************************************************************************)
\* str(uuid.uuid4()): the ids it draws from
Uuids == { << "<uuid-1>" >>, << "<uuid-2>" >> }

\* an id no record has
UnknownId == << "<uuid-0>" >>

\* POPULAR_SERVERS of mcp_pipe.py, without the descriptions
POPULAR_SERVERS ==
    [anthropic_official |->
        [name |-> << "A", "n", "t", "h", "r", "o", "p", "i", "c", " ", "R", "e",
                     "f", "e", "r", "e", "n", "c", "e", " ", "I", "m", "p", "l",
                     "e", "m", "e", "n", "t", "a", "t", "i", "o", "n" >>,
         url |-> << "h", "t", "t", "p", "s", ":", "/", "/", "m", "c", "p", ".",
                    "a", "n", "t", "h", "r", "o", "p", "i", "c", ".", "c", "o",
                    "m", "/", "v", "1" >>,
         needs_api_key |-> TRUE, chat_endpoint |-> EndpointChat],
     brave_search |->
        [name |-> << "B", "r", "a", "v", "e", " ", "S", "e", "a", "r", "c", "h" >>,
         url |-> << "h", "t", "t", "p", "s", ":", "/", "/", "m", "c", "p", ".",
                    "b", "r", "a", "v", "e", ".", "c", "o", "m", "/", "v", "1" >>,
         needs_api_key |-> TRUE, chat_endpoint |-> EndpointSearch],
     kagi_search |->
        [name |-> << "K", "a", "g", "i", " ", "S", "e", "a", "r", "c", "h" >>,
         url |-> << "h", "t", "t", "p", "s", ":", "/", "/", "k", "a", "g", "i",
                    ".", "c", "o", "m", "/", "a", "p", "i", "/", "v", "1" >>,
         needs_api_key |-> TRUE, chat_endpoint |-> EndpointChat],
     tavily |->
        [name |-> << "T", "a", "v", "i", "l", "y", " ", "S", "e", "a", "r", "c",
                     "h" >>,
         url |-> << "h", "t", "t", "p", "s", ":", "/", "/", "a", "p", "i", ".",
                    "t", "a", "v", "i", "l", "y", ".", "c", "o", "m", "/", "v",
                    "1" >>,
         needs_api_key |-> TRUE, chat_endpoint |-> EndpointChat],
     openai |->
        [name |-> << "O", "p", "e", "n", "A", "I" >>,
         url |-> << "h", "t", "t", "p", "s", ":", "/", "/", "a", "p", "i", ".",
                    "o", "p", "e", "n", "a", "i", ".", "c", "o", "m", "/", "v",
                    "1" >>,
         needs_api_key |-> TRUE, chat_endpoint |-> EndpointChat],
     filesystem |->
        [name |-> << "F", "i", "l", "e", "s", "y", "s", "t", "e", "m" >>,
         url |-> << "h", "t", "t", "p", ":", "/", "/", "l", "o", "c", "a", "l",
                    "h", "o", "s", "t", ":", "3", "0", "0", "0" >>,
         needs_api_key |-> FALSE, chat_endpoint |-> EndpointChat],
     github |->
        [name |-> << "G", "i", "t", "H", "u", "b" >>,
         url |-> << "h", "t", "t", "p", ":", "/", "/", "l", "o", "c", "a", "l",
                    "h", "o", "s", "t", ":", "3", "0", "0", "1" >>,
         needs_api_key |-> TRUE, chat_endpoint |-> EndpointChat],
     memory |->
        [name |-> << "M", "e", "m", "o", "r", "y" >>,
         url |-> << "h", "t", "t", "p", ":", "/", "/", "l", "o", "c", "a", "l",
                    "h", "o", "s", "t", ":", "3", "0", "0", "2" >>,
         needs_api_key |-> FALSE, chat_endpoint |-> EndpointChat]]

\* POPULAR_SERVERS of mcp_action.py, without the descriptions
ACTION_POPULAR_SERVERS ==
    [anthropic_official |->
        [name |-> << "A", "n", "t", "h", "r", "o", "p", "i", "c", " ", "R", "e",
                     "f", "e", "r", "e", "n", "c", "e", " ", "I", "m", "p", "l",
                     "e", "m", "e", "n", "t", "a", "t", "i", "o", "n" >>,
         url |-> << "h", "t", "t", "p", "s", ":", "/", "/", "m", "c", "p", ".",
                    "a", "n", "t", "h", "r", "o", "p", "i", "c", ".", "c", "o",
                    "m", "/", "v", "1", "/", "a", "n", "t", "h", "r", "o", "p",
                    "i", "c" >>,
         needs_api_key |-> TRUE],
     brave_search |->
        [name |-> << "B", "r", "a", "v", "e", " ", "S", "e", "a", "r", "c", "h" >>,
         url |-> << "h", "t", "t", "p", "s", ":", "/", "/", "m", "c", "p", ".",
                    "b", "r", "a", "v", "e", ".", "c", "o", "m", "/", "v", "1",
                    "/", "s", "e", "a", "r", "c", "h" >>,
         needs_api_key |-> TRUE],
     kagi_search |->
        [name |-> << "K", "a", "g", "i", " ", "S", "e", "a", "r", "c", "h" >>,
         url |-> << "h", "t", "t", "p", "s", ":", "/", "/", "k", "a", "g", "i",
                    ".", "c", "o", "m", "/", "a", "p", "i", "/", "v", "1", "/",
                    "m", "c", "p" >>,
         needs_api_key |-> TRUE],
     tavily |->
        [name |-> << "T", "a", "v", "i", "l", "y", " ", "S", "e", "a", "r", "c",
                     "h" >>,
         url |-> << "h", "t", "t", "p", "s", ":", "/", "/", "a", "p", "i", ".",
                    "t", "a", "v", "i", "l", "y", ".", "c", "o", "m", "/", "m",
                    "c", "p" >>,
         needs_api_key |-> TRUE],
     openai |->
        [name |-> << "O", "p", "e", "n", "A", "I" >>,
         url |-> << "h", "t", "t", "p", "s", ":", "/", "/", "a", "p", "i", ".",
                    "o", "p", "e", "n", "a", "i", ".", "c", "o", "m", "/", "v",
                    "1", "/", "m", "c", "p" >>,
         needs_api_key |-> TRUE],
     filesystem |->
        [name |-> << "F", "i", "l", "e", "s", "y", "s", "t", "e", "m" >>,
         url |-> << "h", "t", "t", "p", ":", "/", "/", "l", "o", "c", "a", "l",
                    "h", "o", "s", "t", ":", "3", "0", "0", "0" >>,
         needs_api_key |-> FALSE],
     github |->
        [name |-> << "G", "i", "t", "H", "u", "b" >>,
         url |-> << "h", "t", "t", "p", ":", "/", "/", "l", "o", "c", "a", "l",
                    "h", "o", "s", "t", ":", "3", "0", "0", "1" >>,
         needs_api_key |-> TRUE],
     memory |->
        [name |-> << "M", "e", "m", "o", "r", "y" >>,
         url |-> << "h", "t", "t", "p", ":", "/", "/", "l", "o", "c", "a", "l",
                    "h", "o", "s", "t", ":", "3", "0", "0", "2" >>,
         needs_api_key |-> FALSE]]

\* the ids asked for: a server that needs a key, one that does not, and an
\* id that is in neither table
PopularIds == { "brave_search", "filesystem", "nope" }

\* the urls given: two with a scheme prefix, then the scheme in upper case,
\* another scheme, and the empty string
UrlInputs ==
    { UrlA,
      << "h", "t", "t", "p", "s", ":", "/", "/", "b" >>,
      << "H", "T", "T", "P", ":", "/", "/", "a" >>,
      << "f", "t", "p", ":", "/", "/", "a" >>,
      << >> }

\* the names given to add_server and to update_server
NameA == << "A" >>

NameB == << "B" >>

\* the api keys given: none and one
KeyInputs == { << >>, << "k" >> }

\* an assignment that stores nothing
PutNothing(d, key, value) == d

\* servers[key] = value
Put(d, key, value) == [k \in DOMAIN d \cup { key } |-> IF k = key THEN value ELSE d[k]]

\* a url check that ignores the case of the scheme
StartsWithSchemeAnyCase(url) ==
    \/ StartsWith(Lower(url), << "h", "t", "t", "p", ":", "/", "/" >>)
    \/ StartsWith(Lower(url), << "h", "t", "t", "p", "s", ":", "/", "/" >>)

\* url.startswith(("http://", "https://"))
StartsWithScheme(url) ==
    \/ StartsWith(url, << "h", "t", "t", "p", ":", "/", "/" >>)
    \/ StartsWith(url, << "h", "t", "t", "p", "s", ":", "/", "/" >>)

\* "Error: URL must start with http:// or https://"
MsgUrlError ==
    << "E", "r", "r", "o", "r", ":", " ", "U", "R", "L", " ", "m",
       "u", "s", "t", " ", "s", "t", "a", "r", "t", " ", "w", "i",
       "t", "h", " ", "h", "t", "t", "p", ":", "/", "/", " ", "o",
       "r", " ", "h", "t", "t", "p", "s", ":", "/", "/" >>

\* the arguments of a call; None for an argument the operation does not have
\* or was not given
Call(op, server_id, name, url, api_key, default_model) ==
    [op |-> op, server_id |-> server_id, name |-> name, url |-> url,
     api_key |-> api_key, default_model |-> default_model]

InitStore ==
    /\ RelayIdle
    /\ StreamIdle
    /\ PayloadIdle
    /\ StoreIdle

\* Pipe._add_server(name, url, api_key, default_model)
Pipe_add_server ==
    \E url \in UrlInputs, api_key \in { << >> } :
        /\ call' = Call("Pipe._add_server", None, NameA, url, api_key, << >>)
        /\ IF ~StartsWithScheme(url)
           THEN /\ reply' = MsgUrlError
                /\ UNCHANGED << servers, active_server >>
           ELSE \E server_id \in Uuids \ issued :
                    /\ servers' = Put(servers, server_id,
                                      [name |-> NameA, url |-> url, api_key |-> api_key,
                                       default_model |-> << >>,
                                       chat_endpoint |-> get_chat_endpoint(url)])
                    /\ active_server' = server_id
                    /\ reply' = << "M", "C", "P", " ", "s", "e", "r", "v", "e", "r", " ", "'" >> \o NameA
                                \o << "'", " ", "a", "d", "d", "e", "d", " ", "s", "u", "c", "c",
                                      "e", "s", "s", "f", "u", "l", "l", "y", " ", "a", "n", "d",
                                      " ", "s", "e", "t", " ", "a", "s", " ", "a", "c", "t", "i",
                                      "v", "e", "!", "\n", "\n", "S", "e", "r", "v", "e", "r", " ",
                                      "I", "D", ":", " ", "<backquote>" >>
                                \o server_id
                                \o << "<backquote>", "\n", "\n", "Y", "o", "u", " ", "c", "a", "n", " ", "n",
                                      "o", "w", " ", "s", "t", "a", "r", "t", " ", "c", "h", "a",
                                      "t", "t", "i", "n", "g", " ", "w", "i", "t", "h", " ", "t",
                                      "h", "i", "s", " ", "s", "e", "r", "v", "e", "r", "." >>
        /\ issued' = issued \cup DOMAIN servers'
        /\ UNCHANGED << relay_vars, stream_vars, payload_vars >>

\* Pipe._add_popular_server(server_id, api_key, default_model)
Pipe_add_popular_server ==
    \E server_id \in PopularIds, api_key \in KeyInputs :
        /\ call' = Call("Pipe._add_popular_server", << server_id >>, None, None, api_key, << >>)
        /\ IF server_id \notin DOMAIN POPULAR_SERVERS
           THEN /\ reply' = << "E", "r", "r", "o", "r", ":", " ", "N", "o", " ", "p", "r",
                               "e", "d", "e", "f", "i", "n", "e", "d", " ", "s", "e", "r",
                               "v", "e", "r", " ", "f", "o", "u", "n", "d", " ", "w", "i",
                               "t", "h", " ", "I", "D", " ", "'" >> \o << server_id >>
                            \o << "'", ".", " ", "U", "s", "e", " ", "'", "/", "m", "c", "p",
                                  " ", "p", "o", "p", "u", "l", "a", "r", "'", " ", "t", "o",
                                  " ", "s", "e", "e", " ", "a", "v", "a", "i", "l", "a", "b",
                                  "l", "e", " ", "o", "p", "t", "i", "o", "n", "s", "." >>
                /\ UNCHANGED << servers, active_server >>
           ELSE LET server_info == POPULAR_SERVERS[server_id] IN
                IF server_info["needs_api_key"] /\ api_key = << >>
                THEN /\ reply' = << "E", "r", "r", "o", "r", ":", " ", "T", "h", "e", " ", "s",
                                    "e", "r", "v", "e", "r", " ", "'" >> \o server_info["name"]
                                 \o << "'", " ", "r", "e", "q", "u", "i", "r", "e", "s", " ", "a",
                                       "n", " ", "A", "P", "I", " ", "k", "e", "y", ".", " ", "P",
                                       "l", "e", "a", "s", "e", " ", "p", "r", "o", "v", "i", "d",
                                       "e", " ", "o", "n", "e", " ", "u", "s", "i", "n", "g", ":",
                                       " ", "/", "m", "c", "p", " ", "a", "d", "d", "p", " " >>
                                 \o << server_id >> \o << " ", "y", "o", "u", "r", "-", "a", "p", "i", "-", "k", "e",
                                        "y" >>
                     /\ UNCHANGED << servers, active_server >>
                ELSE \E new_server_id \in Uuids \ issued :
                         /\ servers' = Put(servers, new_server_id,
                                           [name |-> server_info["name"],
                                            url |-> server_info["url"],
                                            api_key |-> api_key,
                                            default_model |-> << >>,
                                            chat_endpoint |->
                                                Get(server_info, "chat_endpoint", EndpointChat)])
                         /\ active_server' = new_server_id
                         /\ reply' = << "M", "C", "P", " ", "s", "e", "r", "v", "e", "r", " ", "'" >> \o server_info["name"]
                                     \o << "'", " ", "a", "d", "d", "e", "d", " ", "s", "u", "c", "c",
                                        "e", "s", "s", "f", "u", "l", "l", "y", " ", "a", "n", "d",
                                        " ", "s", "e", "t", " ", "a", "s", " ", "a", "c", "t", "i",
                                        "v", "e", "!", "\n", "\n", "S", "e", "r", "v", "e", "r", " ",
                                        "I", "D", ":", " ", "<backquote>" >>
                                     \o new_server_id
                                     \o << "<backquote>", "\n", "\n", "Y", "o", "u", " ", "c", "a", "n", " ", "n",
                                        "o", "w", " ", "s", "t", "a", "r", "t", " ", "c", "h", "a",
                                        "t", "t", "i", "n", "g", " ", "w", "i", "t", "h", " ", "t",
                                        "h", "i", "s", " ", "s", "e", "r", "v", "e", "r", "." >>
        /\ issued' = issued \cup DOMAIN servers'
        /\ UNCHANGED << relay_vars, stream_vars, payload_vars >>

\* Action.add_server(name, url, api_key, default_model)
Action_add_server ==
    \E url \in UrlInputs, api_key \in { << >> } :
        /\ call' = Call("Action.add_server", None, NameA, url, api_key, << >>)
        /\ IF ~StartsWithScheme(url)
           THEN /\ reply' = MsgUrlError
                /\ UNCHANGED servers
           ELSE \E server_id \in Uuids \ issued :
                    /\ servers' = Put(servers, server_id,
                                      [name |-> NameA, url |-> url, api_key |-> api_key,
                                       default_model |-> << >>])
                    /\ reply' = << "M", "C", "P", " ", "s", "e", "r", "v", "e", "r", " ", "'" >> \o NameA
                                \o << "'", " ", "a", "d", "d", "e", "d", " ", "s", "u", "c", "c",
                                      "e", "s", "s", "f", "u", "l", "l", "y", "!", "\n", "S", "e",
                                      "r", "v", "e", "r", " ", "I", "D", ":", " ", "<backquote>" >> \o server_id
                                \o << "<backquote>", "\n", "\n", "U", "s", "e", " ", "t", "h", "i", "s", " ",
                                      "I", "D", " ", "i", "n", " ", "t", "h", "e", " ", "M", "C",
                                      "P", " ", "C", "o", "n", "n", "e", "c", "t", "o", "r", " ",
                                      "P", "i", "p", "e", " ", "F", "u", "n", "c", "t", "i", "o",
                                      "n", " ", "c", "o", "n", "f", "i", "g", "u", "r", "a", "t",
                                      "i", "o", "n", "." >>
        /\ issued' = issued \cup DOMAIN servers'
        /\ UNCHANGED << active_server, relay_vars, stream_vars, payload_vars >>

\* Action.add_popular_server(server_id, api_key, default_model)
Action_add_popular_server ==
    \E server_id \in PopularIds, api_key \in KeyInputs :
        /\ call' = Call("Action.add_popular_server", << server_id >>, None, None, api_key, << >>)
        /\ IF server_id \notin DOMAIN ACTION_POPULAR_SERVERS
           THEN /\ reply' = << "E", "r", "r", "o", "r", ":", " ", "N", "o", " ", "p", "r",
                               "e", "d", "e", "f", "i", "n", "e", "d", " ", "s", "e", "r",
                               "v", "e", "r", " ", "f", "o", "u", "n", "d", " ", "w", "i",
                               "t", "h", " ", "I", "D", " ", "'" >> \o << server_id >>
                            \o << "'", ".", " ", "U", "s", "e", " ", "'", "l", "i", "s", "t",
                                  "_", "p", "o", "p", "u", "l", "a", "r", "_", "s", "e", "r",
                                  "v", "e", "r", "s", "'", " ", "t", "o", " ", "s", "e", "e",
                                  " ", "a", "v", "a", "i", "l", "a", "b", "l", "e", " ", "o",
                                  "p", "t", "i", "o", "n", "s", "." >>
                /\ UNCHANGED servers
           ELSE LET server_info == ACTION_POPULAR_SERVERS[server_id] IN
                IF server_info["needs_api_key"] /\ api_key = << >>
                THEN /\ reply' = << "E", "r", "r", "o", "r", ":", " ", "T", "h", "e", " ", "s",
                                    "e", "r", "v", "e", "r", " ", "'" >> \o server_info["name"]
                                 \o << "'", " ", "r", "e", "q", "u", "i", "r", "e", "s", " ", "a",
                                       "n", " ", "A", "P", "I", " ", "k", "e", "y", ".", " ", "P",
                                       "l", "e", "a", "s", "e", " ", "p", "r", "o", "v", "i", "d",
                                       "e", " ", "o", "n", "e", " ", "u", "s", "i", "n", "g", " ",
                                       "t", "h", "e", " ", "a", "p", "i", "_", "k", "e", "y", " ",
                                       "p", "a", "r", "a", "m", "e", "t", "e", "r", "." >>
                     /\ UNCHANGED servers
                ELSE \E new_server_id \in Uuids \ issued :
                         /\ servers' = Put(servers, new_server_id,
                                           [name |-> server_info["name"],
                                            url |-> server_info["url"],
                                            api_key |-> api_key,
                                            default_model |-> << >>])
                         /\ reply' = << "M", "C", "P", " ", "s", "e", "r", "v", "e", "r", " ", "'" >> \o server_info["name"]
                                     \o << "'", " ", "a", "d", "d", "e", "d", " ", "s", "u", "c", "c",
                                        "e", "s", "s", "f", "u", "l", "l", "y", "!", "\n", "S", "e",
                                        "r", "v", "e", "r", " ", "I", "D", ":", " ", "<backquote>" >> \o new_server_id
                                     \o << "<backquote>", "\n", "\n", "U", "s", "e", " ", "t", "h", "i", "s", " ",
                                        "I", "D", " ", "i", "n", " ", "t", "h", "e", " ", "M", "C",
                                        "P", " ", "C", "o", "n", "n", "e", "c", "t", "o", "r", " ",
                                        "P", "i", "p", "e", " ", "F", "u", "n", "c", "t", "i", "o",
                                        "n", " ", "c", "o", "n", "f", "i", "g", "u", "r", "a", "t",
                                        "i", "o", "n", "." >>
        /\ issued' = issued \cup DOMAIN servers'
        /\ UNCHANGED << active_server, relay_vars, stream_vars, payload_vars >>

\* Action.update_server(server_id, name, url, api_key, default_model): the
\* record is changed in self.servers field by field, and the file is written
\* only at the end
Action_update_server ==
    \E server_id \in Uuids \cup { UnknownId }, name \in { None, NameB },
       url \in { None } \cup UrlInputs :
        /\ call' = Call("Action.update_server", server_id, name, url, None, None)
        /\ IF server_id \notin DOMAIN servers
           THEN /\ reply' = << "E", "r", "r", "o", "r", ":", " ", "N", "o", " ", "s", "e",
                               "r", "v", "e", "r", " ", "f", "o", "u", "n", "d", " ", "w",
                               "i", "t", "h", " ", "I", "D", " ", "'" >> \o server_id \o << "'" >>
                /\ UNCHANGED servers
           ELSE LET server == servers[server_id]
                    named == IF name # None THEN [server EXCEPT !["name"] = name] ELSE server
                IN  IF url # None /\ ~StartsWithScheme(url)
                    THEN /\ reply' = MsgUrlError
                         /\ UNCHANGED servers
                    ELSE LET updated == IF url # None
                                        THEN [named EXCEPT !["url"] = url]
                                        ELSE named
                         IN  /\ servers' = Put(servers, server_id, updated)
                             /\ reply' = << "M", "C", "P", " ", "s", "e", "r", "v", "e", "r", " ", "'" >> \o updated["name"]
                                         \o << "'", " ", "u", "p", "d", "a", "t", "e", "d", " ", "s", "u",
                                        "c", "c", "e", "s", "s", "f", "u", "l", "l", "y", "!" >>
        /\ UNCHANGED << active_server, issued, relay_vars, stream_vars, payload_vars >>

NextStore ==
    \/ Pipe_add_server
    \/ Pipe_add_popular_server
    \/ Action_add_server
    \/ Action_add_popular_server
    \/ Action_update_server

SpecStore == InitStore /\ [][NextStore]_vars

(***************************************************************************)
(* The chat turn from its start, and the commands of Pipe that change the  *)
(* store or the valves.                                                    *)
(***************************************************************************)
\* "No MCP server selected. ..."
MsgNoServer ==
    << "N", "o", " ", "M", "C", "P", " ", "s", "e", "r", "v", "e",
       "r", " ", "s", "e", "l", "e", "c", "t", "e", "d", ".", " ",
       "U", "s", "e", " ", "'", "/", "m", "c", "p", " ", "u", "s",
       "e", " ", "<", "s", "e", "r", "v", "e", "r", "_", "i", "d",
       ">", "'", " ", "t", "o", " ", "s", "e", "l", "e", "c", "t",
       " ", "a", " ", "s", "e", "r", "v", "e", "r", " ", "o", "r",
       " ", "s", "e", "t", " ", "o", "n", "e", " ", "i", "n", " ",
       "t", "h", "e", " ", "f", "u", "n", "c", "t", "i", "o", "n",
       " ", "c", "o", "n", "f", "i", "g", "u", "r", "a", "t", "i",
       "o", "n", "." >>

\* the server id a chat turn takes: the active server first, the valve only
\* when there is none
ServerIdActiveFirst(v, active) == IF Falsy(active) THEN v["server_id"] ELSE active

\* server_id of _handle_chat: valves.server_id, and when that is empty
\* config.get("active_server", "")
ServerId(v, active) == IF Falsy(v["server_id"]) THEN active ELSE v["server_id"]

\* a start of the turn that takes servers.get(server_id, {}) without the test
ResolveServerUnchecked ==
    /\ pc = "pipe"
    /\ LET server_id == ServerId(valves, active_server)
       IN  /\ server_config' = Get(servers, server_id, [url |-> << >>])
           /\ Goto("handle_chat", idx, payload_stream)
    /\ UNCHANGED << valves, body, sink, sink_called, urls_to_try, requests, resp,
                    open_contexts >>
    /\ UNCHANGED other_vars

\* Pipe._handle_chat, up to the server record: "if not server_id or server_id
\* not in servers: return ..."
ResolveServer ==
    /\ pc = "pipe"
    /\ LET server_id == ServerId(valves, active_server)
       IN  IF Falsy(server_id) \/ server_id \notin DOMAIN servers
           THEN /\ Return(MsgNoServer, "L171")
                /\ UNCHANGED server_config
           ELSE /\ server_config' = servers[server_id]
                /\ Goto("handle_chat", idx, payload_stream)
    /\ UNCHANGED << valves, body, sink, sink_called, urls_to_try, requests, resp,
                    open_contexts >>
    /\ UNCHANGED other_vars

\* a deletion that empties the store
DelAll(d, key) == << >>

\* del servers[key]
Del(d, key) == [k \in DOMAIN d \ { key } |-> d[k]]

\* a test that never finds the deleted server active
IsActiveNever(server_id, active) == FALSE

\* is_active of _delete_server: server_id == config.get("active_server", "")
IsActive(server_id, active) == server_id = active

\* Pipe._delete_server(server_id)
Pipe_delete_server ==
    \E server_id \in Uuids \cup { UnknownId } :
        /\ call' = Call("Pipe._delete_server", server_id, None, None, None, None)
        /\ IF server_id \notin DOMAIN servers
           THEN /\ reply' = << "E", "r", "r", "o", "r", ":", " ", "N", "o", " ", "s", "e",
                               "r", "v", "e", "r", " ", "f", "o", "u", "n", "d", " ", "w",
                               "i", "t", "h", " ", "I", "D", " ", "'" >> \o server_id \o << "'" >>
                /\ UNCHANGED << servers, active_server >>
           ELSE LET server_name == Get(servers[server_id], "name", << "U", "n", "n", "a", "m", "e", "d", " ", "S", "e", "r", "v",
                                        "e", "r" >>)
                    is_active == IsActive(server_id, active_server)
                IN  /\ servers' = Del(servers, server_id)
                    /\ IF is_active
                       THEN /\ active_server' = << >>
                            /\ reply' = << "M", "C", "P", " ", "s", "e", "r", "v", "e", "r", " ", "'" >> \o server_name
                                        \o << "'", " ", "d", "e", "l", "e", "t", "e", "d", " ", "s", "u",
                                        "c", "c", "e", "s", "s", "f", "u", "l", "l", "y", "!", " ",
                                        "T", "h", "i", "s", " ", "w", "a", "s", " ", "y", "o", "u",
                                        "r", " ", "a", "c", "t", "i", "v", "e", " ", "s", "e", "r",
                                        "v", "e", "r", ",", " ", "s", "o", " ", "y", "o", "u", "'",
                                        "l", "l", " ", "n", "e", "e", "d", " ", "t", "o", " ", "s",
                                        "e", "l", "e", "c", "t", " ", "a", " ", "n", "e", "w", " ",
                                        "o", "n", "e", " ", "w", "i", "t", "h", " ", "'", "/", "m",
                                        "c", "p", " ", "u", "s", "e", " ", "<", "s", "e", "r", "v",
                                        "e", "r", "_", "i", "d", ">", "'", "." >>
                       ELSE /\ reply' = << "M", "C", "P", " ", "s", "e", "r", "v", "e", "r", " ", "'" >> \o server_name
                                        \o << "'", " ", "d", "e", "l", "e", "t", "e", "d", " ", "s", "u",
                                        "c", "c", "e", "s", "s", "f", "u", "l", "l", "y", "!" >>
                            /\ UNCHANGED active_server
        /\ UNCHANGED << issued, relay_vars, stream_vars, payload_vars >>

\* a use that does not look the id up in the servers file
Pipe_use_server_unchecked ==
    \E server_id \in Uuids \cup { UnknownId } :
        /\ call' = Call("Pipe._use_server", server_id, None, None, None, None)
        /\ active_server' = server_id
        /\ reply' = << "N", "o", "w", " ", "u", "s", "i", "n", "g", " " >> \o server_id
        /\ UNCHANGED servers
        /\ UNCHANGED << issued, relay_vars, stream_vars, payload_vars >>

\* Pipe._use_server(server_id)
Pipe_use_server ==
    \E server_id \in Uuids \cup { UnknownId } :
        /\ call' = Call("Pipe._use_server", server_id, None, None, None, None)
        /\ IF server_id \notin DOMAIN servers
           THEN /\ reply' = << "E", "r", "r", "o", "r", ":", " ", "N", "o", " ", "s", "e",
                               "r", "v", "e", "r", " ", "f", "o", "u", "n", "d", " ", "w",
                               "i", "t", "h", " ", "I", "D", " ", "'" >> \o server_id \o << "'" >>
                /\ UNCHANGED << servers, active_server >>
           ELSE /\ active_server' = server_id
                /\ reply' = << "N", "o", "w", " ", "u", "s", "i", "n", "g", " ", "M", "C",
                               "P", " ", "s", "e", "r", "v", "e", "r", " ", "'" >> \o Get(servers[server_id], "name", None)
                            \o << "'", " ", "a", "s", " ", "t", "h", "e", " ", "a", "c", "t",
                                  "i", "v", "e", " ", "s", "e", "r", "v", "e", "r", ".", "\n",
                                  "\n", "Y", "o", "u", " ", "c", "a", "n", " ", "n", "o", "w",
                                  " ", "c", "h", "a", "t", " ", "w", "i", "t", "h", " ", "t",
                                  "h", "i", "s", " ", "s", "e", "r", "v", "e", "r", "!" >>
                /\ UNCHANGED servers
        /\ UNCHANGED << issued, relay_vars, stream_vars, payload_vars >>

\* "/mcp debug on", "/mcp debug off", "/mcp debug": self.valves.debug of the
\* Pipe instance is set, or shown
DebugCommand ==
    \E arg \in { "on", "off", "" } :
        /\ call' = Call("/mcp debug", None, None, None, None, None)
        /\ valves' = IF arg = "on" THEN [valves EXCEPT !["debug"] = TRUE]
                     ELSE IF arg = "off" THEN [valves EXCEPT !["debug"] = FALSE]
                     ELSE valves
        /\ reply' = IF arg = "on"
                    THEN << "D", "e", "b", "u", "g", " ", "m", "o", "d", "e", " ", "e",
                            "n", "a", "b", "l", "e", "d", ".", " ", "Y", "o", "u", " ",
                            "w", "i", "l", "l", " ", "s", "e", "e", " ", "d", "e", "t",
                            "a", "i", "l", "e", "d", " ", "e", "r", "r", "o", "r", " ",
                            "i", "n", "f", "o", "r", "m", "a", "t", "i", "o", "n", "." >>
                    ELSE IF arg = "off"
                         THEN << "D", "e", "b", "u", "g", " ", "m", "o", "d", "e", " ", "d",
                                 "i", "s", "a", "b", "l", "e", "d", "." >>
                         ELSE << "D", "e", "b", "u", "g", " ", "m", "o", "d", "e", " ", "i",
                                 "s", " ", "c", "u", "r", "r", "e", "n", "t", "l", "y", " " >>
                              \o (IF valves["debug"] THEN << "e", "n", "a", "b", "l", "e", "d" >> ELSE << "d", "i", "s", "a", "b", "l", "e", "d" >>)
                              \o << ".", " ", "U", "s", "e", " ", "'", "/", "m", "c", "p", " ",
                                    "d", "e", "b", "u", "g", " ", "o", "n", "'", " ", "o", "r",
                                    " ", "'", "/", "m", "c", "p", " ", "d", "e", "b", "u", "g",
                                    " ", "o", "f", "f", "'", " ", "t", "o", " ", "c", "h", "a",
                                    "n", "g", "e", "." >>
        /\ UNCHANGED << servers, active_server, issued >>
        /\ UNCHANGED << server_config, body, sink, pc, urls_to_try, idx, payload_stream,
                        requests, resp, result, retsite, open_contexts, sink_called >>
        /\ UNCHANGED << stream_vars, payload_vars >>

\* a record written by Pipe._add_server and one written by
\* Pipe._add_popular_server("brave_search", key)
RecordA ==
    [name |-> NameA, url |-> UrlA, api_key |-> << >>, default_model |-> << >>,
     chat_endpoint |-> EndpointChat]

RecordBrave ==
    [name |-> POPULAR_SERVERS["brave_search"]["name"],
     url |-> POPULAR_SERVERS["brave_search"]["url"],
     api_key |-> << "k" >>, default_model |-> << >>,
     chat_endpoint |-> POPULAR_SERVERS["brave_search"]["chat_endpoint"]]

\* the servers file with these two records
TwoServers == Put(Put(<< >>, << "<uuid-1>" >>, RecordA), << "<uuid-2>" >>, RecordBrave)

(***************************************************************************)
(* A chat turn that runs while commands are handled for other chats on the *)
(* same Pipe instance: every await of the turn is a point where a command  *)
(* may run.                                                                *)
(***************************************************************************)
InitConcurrent ==
    /\ valves \in [server_id : { << >> }, stream : BOOLEAN, debug : { FALSE }]
    /\ server_config = [url |-> << >>]
    /\ body = [messages |-> << UserTurn >>]
    /\ sink = "none"
    /\ pc = "pipe"
    /\ urls_to_try = << >>
    /\ idx = 0
    /\ payload_stream = FALSE
    /\ requests = << >>
    /\ resp = NoAnswer
    /\ result = NoResult
    /\ retsite = "none"
    /\ open_contexts = << >>
    /\ sink_called = FALSE
    /\ StreamIdle
    /\ PayloadIdle
    /\ servers = TwoServers
    /\ active_server \in DOMAIN TwoServers
    /\ issued = DOMAIN TwoServers
    /\ call = NoCall
    /\ reply = NoResult

\* the turn is at one of its awaits, and no command ran since it started: one
\* command is followed per turn
InFlight == pc \notin { "pipe", "done" } /\ call = NoCall

NextConcurrent ==
    \/ ResolveServer
    \/ Next
    \/ InFlight /\ DebugCommand
    \/ InFlight /\ Pipe_use_server
    \/ InFlight /\ Pipe_delete_server

SpecConcurrent == InitConcurrent /\ [][NextConcurrent]_vars

(***************************************************************************)
(* MCPClient.chat_completion (mcp_connector/utils/mcp_client.py).  In this *)
(* part server_config holds the fields of the client (server_url as given  *)
(* to __init__, api_key), body the arguments of the call, mcp_payload and  *)
(* headers the request it prepares, result the value returned or the       *)
(* message of the exception raised.                                        *)
(***************************************************************************)
\* the arguments: temperature and max_tokens are None or a number, written as
\* the text json.dumps gives it
ClientCalls ==
    [model_id : { << "m" >> }, messages : { << UserTurn >> }, stream : BOOLEAN,
     temperature : { None, << "<0.2>" >> }, max_tokens : { None, << "<5>" >> }]

\* the client: api_key None (the default), empty, or given
Clients == [url : { UrlA, UrlASlashes }, api_key : { None, << >>, << "k" >> }]

\* payload of chat_completion
ClientPayload(args) ==
    [model |-> args["model_id"], messages |-> args["messages"], stream |-> args["stream"]]
    @@ (IF args["temperature"] # None THEN "temperature" :> args["temperature"] ELSE << >>)
    @@ (IF args["max_tokens"] # None THEN "max_tokens" :> args["max_tokens"] ELSE << >>)

\* error_text[:100]
Excerpt(error_text) ==
    SubSeq(error_text, 1, IF Len(error_text) < MaxExcerpt THEN Len(error_text) ELSE MaxExcerpt)

\* "Chat completion failed: {str(e)}" for e = Exception(f"HTTP {status}: {error_text[:100]}")
ClientHttpError(status, error_text) ==
    << "C", "h", "a", "t", " ", "c", "o", "m", "p", "l", "e", "t",
       "i", "o", "n", " ", "f", "a", "i", "l", "e", "d", ":", " " >> \o << "H", "T", "T", "P", " " >> \o NumStr(status) \o << ":", " " >> \o Excerpt(error_text)

\* "Chat completion failed: {str(e)}" for an exception of aiohttp
ClientFailed == << "C", "h", "a", "t", " ", "c", "o", "m", "p", "l", "e", "t",
                   "i", "o", "n", " ", "f", "a", "i", "l", "e", "d", ":", " " >> \o OpaqueException

\* the TypeError of "await" applied to an async generator object
AwaitTypeError == << "<TypeError: object async_generator can't be used in 'await' expression>" >>

InitClient ==
    /\ server_config \in Clients
    /\ body \in ClientCalls
    /\ valves = [stream |-> FALSE, debug |-> FALSE]
    /\ sink = "none"
    /\ pc = "chat_completion"
    /\ urls_to_try = << >>
    /\ idx = 0
    /\ payload_stream = FALSE
    /\ requests = << >>
    /\ resp = NoAnswer
    /\ result = NoResult
    /\ retsite = "none"
    /\ open_contexts = << >>
    /\ sink_called = FALSE
    /\ StreamIdle
    /\ PayloadIdle
    /\ StoreIdle

\* chat_completion up to its first await.  With stream true it calls
\* _stream_chat_completion, which is an async generator function (its body holds
\* a yield): the call runs no statement of the body and gives an async generator
\* object, and "await" of that object raises TypeError.  With stream false it
\* enters _non_stream_chat_completion and posts the payload.
ChatCompletion ==
    /\ pc = "chat_completion"
    /\ mcp_payload' = ClientPayload(body)
    /\ IF body["stream"]
       THEN /\ pc' = "done"
            /\ result' = AwaitTypeError
            /\ retsite' = "raised"
            /\ UNCHANGED << headers, requests >>
       ELSE /\ headers' = Headers(server_config)
            /\ Issue("POST", RStripSlash(server_config["url"]) \o PathV1Chat, FALSE)
            /\ pc' = "client_wait"
            /\ UNCHANGED << result, retsite >>
    /\ UNCHANGED << valves, server_config, body, sink, sink_called, urls_to_try, idx,
                    payload_stream, resp, open_contexts, stream_vars, store_vars >>

\* _non_stream_chat_completion from the answer on: the dictionary of a 200
\* answer is returned, anything else is raised again by the except clause
NonStreamChatCompletion ==
    /\ pc = "client_wait"
    /\ \E a \in ChatAnswers :
          /\ Answered(a, FALSE)
          /\ pc' = "done"
          /\ IF a.sent /\ a.status = 200 /\ a.read
             THEN result' = a.json /\ retsite' = "L195"
             ELSE /\ retsite' = "raised"
                  /\ result' = IF a.sent /\ a.status # 200 /\ a.read
                               THEN ClientHttpError(a.status, a.text)
                               ELSE ClientFailed
    /\ UNCHANGED << valves, server_config, body, sink, sink_called, urls_to_try, idx,
                    payload_stream, open_contexts, headers, mcp_payload, stream_vars,
                    store_vars >>

NextClient ==
    \/ ChatCompletion
    \/ NonStreamChatCompletion

SpecClient == InitClient /\ [][NextClient]_vars

(***************************************************************************)
(* The commands of Pipe that write the store, run one after another, and   *)
(* the start of a chat turn.  The store starts empty or with one record    *)
(* that an earlier "/mcp add" wrote; valves.server_id is empty, the id of  *)
(* a record of the store, or an id no record has.                          *)
(***************************************************************************)
InitCommands ==
    /\ servers \in { << >>, Put(<< >>, << "<uuid-1>" >>, RecordA) }
    /\ issued = DOMAIN servers
    /\ active_server \in { << >> } \cup DOMAIN servers
    /\ call = NoCall
    /\ reply = NoResult
    /\ valves \in [server_id : { << >>, UnknownId } \cup DOMAIN servers,
                   stream : { FALSE }, debug : { FALSE }]
    /\ server_config = [url |-> << >>]
    /\ body = [messages |-> << UserTurn >>]
    /\ sink = "none"
    /\ pc = "pipe"
    /\ urls_to_try = << >>
    /\ idx = 0
    /\ payload_stream = FALSE
    /\ requests = << >>
    /\ resp = NoAnswer
    /\ result = NoResult
    /\ retsite = "none"
    /\ open_contexts = << >>
    /\ sink_called = FALSE
    /\ StreamIdle
    /\ PayloadIdle

NextCommands ==
    \/ Pipe_add_server
    \/ Pipe_add_popular_server
    \/ Pipe_delete_server
    \/ Pipe_use_server
    \/ ResolveServer

SpecCommands == InitCommands /\ [][NextCommands]_vars

(***************************************************************************)
(* A chat turn from its start to its return, on a store with two records:  *)
(* valves.server_id and the active server are each empty, the id of a      *)
(* record, or an id that has no record (a record deleted since).           *)
(***************************************************************************)
InitTurn ==
    /\ servers = TwoServers
    /\ issued = DOMAIN TwoServers
    /\ active_server \in { << >>, UnknownId } \cup DOMAIN TwoServers
    /\ call = NoCall
    /\ reply = NoResult
    /\ valves \in [server_id : { << >>, << "<uuid-1>" >>, UnknownId },
                   stream : BOOLEAN, debug : { FALSE }]
    /\ server_config = [url |-> << >>]
    /\ body = [messages |-> << UserTurn >>]
    /\ sink \in { "none", "ok" }
    /\ pc = "pipe"
    /\ urls_to_try = << >>
    /\ idx = 0
    /\ payload_stream = FALSE
    /\ requests = << >>
    /\ resp = NoAnswer
    /\ result = NoResult
    /\ retsite = "none"
    /\ open_contexts = << >>
    /\ sink_called = FALSE
    /\ StreamIdle
    /\ PayloadIdle

NextTurn == ResolveServer \/ Next

SpecTurn == InitTurn /\ [][NextTurn]_vars

(***************************************************************************)
(* Pipe.pipe from its entry: a message that is a command is handled by     *)
(* _handle_command or _show_help, any other is relayed by _handle_chat.    *)
(* Every step at the entry is one invocation of Pipe.pipe.                 *)
(***************************************************************************)
\* the first word of a text that does not begin with whitespace
RECURSIVE FirstWord(_)
FirstWord(s) ==
    IF s = << >> \/ s[1] \in Whitespace THEN << >>
    ELSE << s[1] >> \o FirstWord(SubSeq(s, 2, Len(s)))

\* s.split()
RECURSIVE Split(_)
Split(s) ==
    LET t == LStrip(s)
    IN  IF t = << >> THEN << >>
        ELSE << FirstWord(t) >> \o Split(SubSeq(t, Len(FirstWord(t)) + 1, Len(t)))

\* "/mcp" and "/mcp "
TextMcp == << "/", "m", "c", "p" >>

TextMcpSpace == << "/", "m", "c", "p", " " >>

\* a route that takes only the bare "/mcp" for a command
PipeRouteBareOnly(messages) ==
    IF messages # << >> /\ "content" \in DOMAIN messages[Len(messages)]
    THEN IF Strip(messages[Len(messages)]["content"]) = TextMcp THEN "help" ELSE "chat"
    ELSE "chat"

\* the branch Pipe.pipe takes: _handle_command, _show_help or _handle_chat
PipeRoute(messages) ==
    IF messages # << >> /\ "content" \in DOMAIN messages[Len(messages)]
    THEN LET user_message == Strip(messages[Len(messages)]["content"])
         IN  IF StartsWith(user_message, TextMcpSpace) THEN "command"
             ELSE IF user_message = TextMcp THEN "help"
             ELSE "chat"
    ELSE "chat"

\* user_message[5:], the argument of _handle_command
Command(messages) ==
    LET user_message == Strip(messages[Len(messages)]["content"])
    IN  SubSeq(user_message, 6, Len(user_message))

\* parts, cmd and args of _handle_command
Parts(command) == Split(Strip(command))

Cmd(command) == Lower(Parts(command)[1])

Args(command) == Tail(Parts(command))

\* args[i] if len(args) > i else ""   (i counted from 0 in the code, from 1 here)
ArgOr(args, i) == IF Len(args) >= i THEN args[i] ELSE << >>

\* the "description" of each entry of POPULAR_SERVERS
POPULAR_DESCRIPTIONS ==
    [anthropic_official |-> << "O", "f", "f", "i", "c", "i", "a", "l", " ", "A", "n", "t",
                               "h", "r", "o", "p", "i", "c", " ", "M", "C", "P", " ", "s",
                               "e", "r", "v", "e", "r", " ", "w", "i", "t", "h", " ", "c",
                               "o", "r", "e", " ", "f", "e", "a", "t", "u", "r", "e", "s" >>,
     brave_search |-> << "W", "e", "b", " ", "a", "n", "d", " ", "l", "o", "c", "a",
                         "l", " ", "s", "e", "a", "r", "c", "h", " ", "u", "s", "i",
                         "n", "g", " ", "B", "r", "a", "v", "e", "'", "s", " ", "S",
                         "e", "a", "r", "c", "h", " ", "A", "P", "I" >>,
     kagi_search |-> << "S", "e", "a", "r", "c", "h", " ", "t", "h", "e", " ", "w",
                        "e", "b", " ", "u", "s", "i", "n", "g", " ", "K", "a", "g",
                        "i", "'", "s", " ", "s", "e", "a", "r", "c", "h", " ", "A",
                        "P", "I" >>,
     tavily |-> << "S", "e", "a", "r", "c", "h", " ", "e", "n", "g", "i", "n",
                   "e", " ", "f", "o", "r", " ", "A", "I", " ", "a", "g", "e",
                   "n", "t", "s", " ", "b", "y", " ", "T", "a", "v", "i", "l",
                   "y" >>,
     openai |-> << "O", "p", "e", "n", "A", "I", " ", "m", "o", "d", "e", "l",
                   "s", " ", "i", "n", "t", "e", "g", "r", "a", "t", "i", "o",
                   "n" >>,
     filesystem |-> << "L", "o", "c", "a", "l", " ", "f", "i", "l", "e", "s", "y",
                       "s", "t", "e", "m", " ", "a", "c", "c", "e", "s", "s", " ",
                       "(", "r", "e", "q", "u", "i", "r", "e", "s", " ", "l", "o",
                       "c", "a", "l", " ", "s", "e", "r", "v", "e", "r", " ", "s",
                       "e", "t", "u", "p", ")" >>,
     github |-> << "G", "i", "t", "H", "u", "b", " ", "A", "P", "I", " ", "i",
                   "n", "t", "e", "g", "r", "a", "t", "i", "o", "n", " ", "(",
                   "r", "e", "q", "u", "i", "r", "e", "s", " ", "l", "o", "c",
                   "a", "l", " ", "s", "e", "r", "v", "e", "r", " ", "s", "e",
                   "t", "u", "p", ")" >>,
     memory |-> << "K", "n", "o", "w", "l", "e", "d", "g", "e", " ", "g", "r",
                   "a", "p", "h", "-", "b", "a", "s", "e", "d", " ", "m", "e",
                   "m", "o", "r", "y", " ", "s", "y", "s", "t", "e", "m", " ",
                   "(", "r", "e", "q", "u", "i", "r", "e", "s", " ", "l", "o",
                   "c", "a", "l", " ", "s", "e", "r", "v", "e", "r", " ", "s",
                   "e", "t", "u", "p", ")" >>]

\* the keys of POPULAR_SERVERS, in the order of the dictionary
POPULAR_ORDER ==
    << "anthropic_official", "brave_search", "kagi_search", "tavily", "openai", "filesystem", "github", "memory" >>

\* _show_help()
HelpText ==
    << "#", " ", "M", "C", "P", " ", "C", "o", "n", "n", "e", "c",
       "t", "o", "r", " ", "C", "o", "m", "m", "a", "n", "d", "s",
       "\n", "\n" >>
    \o << "U", "s", "e", " ", "t", "h", "e", "s", "e", " ", "c", "o",
          "m", "m", "a", "n", "d", "s", " ", "t", "o", " ", "m", "a",
          "n", "a", "g", "e", " ", "y", "o", "u", "r", " ", "M", "C",
          "P", " ", "s", "e", "r", "v", "e", "r", "s", ":", "\n", "\n" >>
    \o << "-", " ", "<backquote>", "/", "m", "c", "p", " ", "l", "i", "s", "t",
          "<backquote>", " ", "-", " ", "L", "i", "s", "t", " ", "a", "l", "l",
          " ", "c", "o", "n", "f", "i", "g", "u", "r", "e", "d", " ",
          "M", "C", "P", " ", "s", "e", "r", "v", "e", "r", "s", "\n" >>
    \o << "-", " ", "<backquote>", "/", "m", "c", "p", " ", "p", "o", "p", "u",
          "l", "a", "r", "<backquote>", " ", "-", " ", "L", "i", "s", "t", " ",
          "p", "r", "e", "d", "e", "f", "i", "n", "e", "d", " ", "p",
          "o", "p", "u", "l", "a", "r", " ", "M", "C", "P", " ", "s",
          "e", "r", "v", "e", "r", "s", "\n" >>
    \o << "-", " ", "<backquote>", "/", "m", "c", "p", " ", "a", "d", "d", " ",
          "<", "n", ">", " ", "<", "u", "r", "l", ">", " ", "[", "a",
          "p", "i", "_", "k", "e", "y", "]", " ", "[", "d", "e", "f",
          "a", "u", "l", "t", "_", "m", "o", "d", "e", "l", "]", "<backquote>",
          " ", "-", " ", "A", "d", "d", " ", "a", " ", "n", "e", "w",
          " ", "M", "C", "P", " ", "s", "e", "r", "v", "e", "r", "\n" >>
    \o << "-", " ", "<backquote>", "/", "m", "c", "p", " ", "a", "d", "d", "p",
          " ", "<", "s", "e", "r", "v", "e", "r", "_", "i", "d", ">",
          " ", "[", "a", "p", "i", "_", "k", "e", "y", "]", " ", "[",
          "d", "e", "f", "a", "u", "l", "t", "_", "m", "o", "d", "e",
          "l", "]", "<backquote>", " ", "-", " ", "A", "d", "d", " ", "a", " ",
          "p", "r", "e", "d", "e", "f", "i", "n", "e", "d", " ", "p",
          "o", "p", "u", "l", "a", "r", " ", "s", "e", "r", "v", "e",
          "r", "\n" >>
    \o << "-", " ", "<backquote>", "/", "m", "c", "p", " ", "d", "e", "l", "e",
          "t", "e", " ", "<", "s", "e", "r", "v", "e", "r", "_", "i",
          "d", ">", "<backquote>", " ", "-", " ", "D", "e", "l", "e", "t", "e",
          " ", "a", " ", "s", "e", "r", "v", "e", "r", "\n" >>
    \o << "-", " ", "<backquote>", "/", "m", "c", "p", " ", "u", "s", "e", " ",
          "<", "s", "e", "r", "v", "e", "r", "_", "i", "d", ">", "<backquote>",
          " ", "-", " ", "S", "e", "l", "e", "c", "t", " ", "a", " ",
          "s", "e", "r", "v", "e", "r", " ", "t", "o", " ", "u", "s",
          "e", "\n" >>
    \o << "-", " ", "<backquote>", "/", "m", "c", "p", " ", "a", "c", "t", "i",
          "v", "e", "<backquote>", " ", "-", " ", "S", "h", "o", "w", " ", "t",
          "h", "e", " ", "c", "u", "r", "r", "e", "n", "t", "l", "y",
          " ", "a", "c", "t", "i", "v", "e", " ", "s", "e", "r", "v",
          "e", "r", "\n" >>
    \o << "-", " ", "<backquote>", "/", "m", "c", "p", " ", "d", "e", "b", "u",
          "g", " ", "o", "n", "|", "o", "f", "f", "<backquote>", " ", "-", " ",
          "E", "n", "a", "b", "l", "e", "/", "d", "i", "s", "a", "b",
          "l", "e", " ", "d", "e", "b", "u", "g", " ", "m", "o", "d",
          "e", " ", "f", "o", "r", " ", "t", "r", "o", "u", "b", "l",
          "e", "s", "h", "o", "o", "t", "i", "n", "g", "\n" >>
    \o << "-", " ", "<backquote>", "/", "m", "c", "p", " ", "h", "e", "l", "p",
          "<backquote>", " ", "-", " ", "S", "h", "o", "w", " ", "t", "h", "i",
          "s", " ", "h", "e", "l", "p", " ", "m", "e", "s", "s", "a",
          "g", "e", "\n", "\n" >>
    \o << "E", "x", "a", "m", "p", "l", "e", " ", "u", "s", "a", "g",
          "e", ":", "\n" >>
    \o << "<backquote>", "<backquote>", "<backquote>", "\n", "/", "m", "c", "p", " ", "p", "o", "p",
          "u", "l", "a", "r", "\n", "/", "m", "c", "p", " ", "a", "d",
          "d", "p", " ", "b", "r", "a", "v", "e", "_", "s", "e", "a",
          "r", "c", "h", " ", "y", "o", "u", "r", "-", "a", "p", "i",
          "-", "k", "e", "y", "\n", "/", "m", "c", "p", " ", "u", "s",
          "e", " ", "s", "e", "r", "v", "e", "r", "-", "i", "d", "-",
          "f", "r", "o", "m", "-", "l", "i", "s", "t", "\n", "<backquote>", "<backquote>",
          "<backquote>" >>

TextUnnamed == << "U", "n", "n", "a", "m", "e", "d", " ", "S", "e", "r", "v",
                  "e", "r" >>

TextNotSet == << "N", "o", "t", " ", "s", "e", "t" >>

\* 'Configured' if server.get('api_key') else 'Not set'
KeyShown(server) ==
    IF Falsy(Get(server, "api_key", None)) THEN TextNotSet ELSE << "C", "o", "n", "f", "i", "g", "u", "r", "e", "d" >>

\* one entry of _list_servers
ListEntry(server_id, server, active_id) ==
    << "#", "#", "#", " " >> \o Get(server, "name", TextUnnamed)
    \o (IF server_id = active_id THEN << " ", "(", "A", "C", "T", "I", "V", "E", ")", "\n" >> ELSE << "\n" >>)
    \o << "-", " ", "I", "D", ":", " ", "<backquote>" >> \o server_id \o << "<backquote>", "\n" >>
    \o << "-", " ", "U", "R", "L", ":", " " >> \o Get(server, "url", TextNotSet) \o << "\n" >>
    \o << "-", " ", "D", "e", "f", "a", "u", "l", "t", " ", "M", "o",
          "d", "e", "l", ":", " " >> \o Get(server, "default_model", TextNotSet) \o << "\n" >>
    \o << "-", " ", "A", "P", "I", " ", "K", "e", "y", ":", " " >> \o KeyShown(server) \o << "\n", "\n" >>

\* the ids of the store one after another; the model does not keep the order
\* of the servers file and lists them in the order of their names
IdsOf(d) ==
    (IF << "<uuid-1>" >> \in DOMAIN d THEN << << "<uuid-1>" >> >> ELSE << >>)
    \o (IF << "<uuid-2>" >> \in DOMAIN d THEN << << "<uuid-2>" >> >> ELSE << >>)

RECURSIVE ListEntries(_, _, _)
ListEntries(ids, d, active_id) ==
    IF ids = << >> THEN << >>
    ELSE ListEntry(ids[1], d[ids[1]], active_id) \o ListEntries(Tail(ids), d, active_id)

\* _list_servers()
ListServers(d, v, active) ==
    IF DOMAIN d = { }
    THEN << "N", "o", " ", "M", "C", "P", " ", "s", "e", "r", "v", "e",
            "r", "s", " ", "c", "o", "n", "f", "i", "g", "u", "r", "e",
            "d", ".", " ", "U", "s", "e", " ", "'", "/", "m", "c", "p",
            " ", "a", "d", "d", "'", " ", "t", "o", " ", "a", "d", "d",
            " ", "o", "n", "e", ",", " ", "o", "r", " ", "'", "/", "m",
            "c", "p", " ", "p", "o", "p", "u", "l", "a", "r", "'", " ",
            "t", "o", " ", "s", "e", "e", " ", "p", "r", "e", "d", "e",
            "f", "i", "n", "e", "d", " ", "o", "p", "t", "i", "o", "n",
            "s", "." >>
    ELSE << "#", "#", " ", "C", "o", "n", "f", "i", "g", "u", "r", "e",
            "d", " ", "M", "C", "P", " ", "S", "e", "r", "v", "e", "r",
            "s", "\n", "\n" >>
         \o ListEntries(IdsOf(d), d, ServerId(v, active))
         \o << "T", "o", " ", "u", "s", "e", " ", "a", " ", "s", "e", "r",
               "v", "e", "r", ",", " ", "u", "s", "e", " ", "t", "h", "e",
               " ", "c", "o", "m", "m", "a", "n", "d", ":", " ", "<backquote>", "/",
               "m", "c", "p", " ", "u", "s", "e", " ", "s", "e", "r", "v",
               "e", "r", "-", "i", "d", "<backquote>" >>

\* one entry of _list_popular_servers
PopularEntry(server_id) ==
    << "#", "#", "#", " " >> \o POPULAR_SERVERS[server_id]["name"] \o << "\n" >>
    \o << "-", " ", "I", "D", ":", " ", "<backquote>" >> \o << server_id >> \o << "<backquote>", "\n" >>
    \o << "-", " ", "U", "R", "L", ":", " " >> \o POPULAR_SERVERS[server_id]["url"] \o << "\n" >>
    \o << "-", " ", "D", "e", "s", "c", "r", "i", "p", "t", "i", "o",
          "n", ":", " " >> \o POPULAR_DESCRIPTIONS[server_id] \o << "\n" >>
    \o << "-", " ", "A", "P", "I", " ", "K", "e", "y", " ", "R", "e",
          "q", "u", "i", "r", "e", "d", ":", " " >>
    \o (IF POPULAR_SERVERS[server_id]["needs_api_key"] THEN << "Y", "e", "s" >> ELSE << "N", "o" >>) \o << "\n", "\n" >>

RECURSIVE PopularEntries(_)
PopularEntries(ids) ==
    IF ids = << >> THEN << >> ELSE PopularEntry(ids[1]) \o PopularEntries(Tail(ids))

\* _list_popular_servers()
ListPopularServers ==
    << "#", "#", " ", "P", "o", "p", "u", "l", "a", "r", " ", "M",
       "C", "P", " ", "S", "e", "r", "v", "e", "r", "s", "\n", "\n" >>
    \o << "T", "h", "e", "s", "e", " ", "a", "r", "e", " ", "p", "o",
          "p", "u", "l", "a", "r", " ", "M", "C", "P", " ", "s", "e",
          "r", "v", "e", "r", "s", " ", "t", "h", "a", "t", " ", "y",
          "o", "u", " ", "c", "a", "n", " ", "a", "d", "d", " ", "t",
          "o", " ", "y", "o", "u", "r", " ", "c", "o", "n", "f", "i",
          "g", "u", "r", "a", "t", "i", "o", "n", " ", "u", "s", "i",
          "n", "g", " ", "t", "h", "e", " ", "a", "d", "d", "p", " ",
          "c", "o", "m", "m", "a", "n", "d", ".", "\n", "\n" >>
    \o PopularEntries(POPULAR_ORDER)
    \o << "T", "o", " ", "a", "d", "d", " ", "o", "n", "e", " ", "o",
          "f", " ", "t", "h", "e", "s", "e", " ", "s", "e", "r", "v",
          "e", "r", "s", ",", " ", "u", "s", "e", " ", "t", "h", "e",
          " ", "c", "o", "m", "m", "a", "n", "d", ":", "\n" >>
    \o << "<backquote>", "<backquote>", "<backquote>", "\n", "/", "m", "c", "p", " ", "a", "d", "d",
          "p", " ", "s", "e", "r", "v", "e", "r", "_", "i", "d", " ",
          "[", "a", "p", "i", "_", "k", "e", "y", "]", " ", "[", "d",
          "e", "f", "a", "u", "l", "t", "_", "m", "o", "d", "e", "l",
          "]", "\n", "<backquote>", "<backquote>", "<backquote>", "\n" >>
    \o << "F", "o", "r", " ", "e", "x", "a", "m", "p", "l", "e", ":",
          "\n" >>
    \o << "<backquote>", "<backquote>", "<backquote>", "\n", "/", "m", "c", "p", " ", "a", "d", "d",
          "p", " ", "b", "r", "a", "v", "e", "_", "s", "e", "a", "r",
          "c", "h", " ", "y", "o", "u", "r", "-", "a", "p", "i", "-",
          "k", "e", "y", "\n", "<backquote>", "<backquote>", "<backquote>", "\n" >>

\* _show_active_server()
ShowActiveServer(d, v, active) ==
    LET active_id == ServerId(v, active)
    IN  IF Falsy(active_id)
        THEN << "N", "o", " ", "a", "c", "t", "i", "v", "e", " ", "s", "e",
                "r", "v", "e", "r", " ", "s", "e", "l", "e", "c", "t", "e",
                "d", ".", " ", "U", "s", "e", " ", "'", "/", "m", "c", "p",
                " ", "u", "s", "e", " ", "<", "s", "e", "r", "v", "e", "r",
                "_", "i", "d", ">", "'", " ", "t", "o", " ", "s", "e", "l",
                "e", "c", "t", " ", "a", " ", "s", "e", "r", "v", "e", "r",
                "." >>
        ELSE IF active_id \notin DOMAIN d
        THEN << "E", "r", "r", "o", "r", ":", " ", "A", "c", "t", "i", "v",
                "e", " ", "s", "e", "r", "v", "e", "r", " ", "I", "D", " ",
                "'" >> \o active_id \o << "'", " ", "n", "o", "t", " ", "f", "o", "u", "n", "d", " ",
                                        "i", "n", " ", "s", "e", "r", "v", "e", "r", " ", "l", "i",
                                        "s", "t", "." >>
        ELSE LET server == d[active_id]
             IN  << "#", "#", " ", "A", "c", "t", "i", "v", "e", " ", "M", "C",
                    "P", " ", "S", "e", "r", "v", "e", "r", "\n", "\n" >>
                 \o << "*", "*", "N", "a", "m", "e", ":", "*", "*", " " >> \o Get(server, "name", TextUnnamed) \o << "\n" >>
                 \o << "*", "*", "I", "D", ":", "*", "*", " ", "<backquote>" >> \o active_id \o << "<backquote>", "\n" >>
                 \o << "*", "*", "U", "R", "L", ":", "*", "*", " " >> \o Get(server, "url", TextNotSet) \o << "\n" >>
                 \o << "*", "*", "D", "e", "f", "a", "u", "l", "t", " ", "M", "o",
                       "d", "e", "l", ":", "*", "*", " " >> \o Get(server, "default_model", TextNotSet) \o << "\n" >>
                 \o << "*", "*", "A", "P", "I", " ", "K", "e", "y", ":", "*", "*",
                       " " >> \o KeyShown(server) \o << "\n" >>
                 \o << "*", "*", "C", "h", "a", "t", " ", "E", "n", "d", "p", "o",
                       "i", "n", "t", ":", "*", "*", " " >> \o Get(server, "chat_endpoint", EndpointChat) \o << "\n", "\n" >>
                 \o (IF v["debug"] THEN << "*", "*", "D", "e", "b", "u", "g", " ", "M", "o", "d", "e",
                                        ":", "*", "*", " ", "E", "n", "a", "b", "l", "e", "d", "\n",
                                        "\n" >> ELSE << >>)

\* the message is handled by _handle_command, and cmd is c
AtCommand(c) ==
    /\ pc = "pipe_entry"
    /\ PipeRoute(Get(body, "messages", << >>)) = "command"
    /\ Parts(Command(body["messages"])) # << >>
    /\ Cmd(Command(body["messages"])) = c

\* args of the command in the message
ArgsGiven == Args(Command(body["messages"]))

\* the branches of _handle_command that call an operation with arguments, and
\* the number of arguments each asks for
ArgsAsked == [add |-> 2, addp |-> 1, delete |-> 1, use |-> 1]

\* "/mcp add <n> <url> [api_key] [default_model]"
CommandAdd ==
    /\ AtCommand(<< "a", "d", "d" >>)
    /\ Len(ArgsGiven) >= ArgsAsked["add"]
    /\ Pipe_add_server
    /\ call'["name"] = ArgsGiven[1]
    /\ call'["url"] = ArgsGiven[2]
    /\ call'["api_key"] = ArgOr(ArgsGiven, 3)
    /\ call'["default_model"] = ArgOr(ArgsGiven, 4)

\* "/mcp addp <server_id> [api_key] [default_model]"
CommandAddp ==
    /\ AtCommand(<< "a", "d", "d", "p" >>)
    /\ Len(ArgsGiven) >= ArgsAsked["addp"]
    /\ Pipe_add_popular_server
    /\ call'["server_id"] = ArgsGiven[1]
    /\ call'["api_key"] = ArgOr(ArgsGiven, 2)
    /\ call'["default_model"] = ArgOr(ArgsGiven, 3)

\* "/mcp delete <server_id>"
CommandDelete ==
    /\ AtCommand(<< "d", "e", "l", "e", "t", "e" >>)
    /\ Len(ArgsGiven) >= ArgsAsked["delete"]
    /\ Pipe_delete_server
    /\ call'["server_id"] = ArgsGiven[1]

\* "/mcp use <server_id>"
CommandUse ==
    /\ AtCommand(<< "u", "s", "e" >>)
    /\ Len(ArgsGiven) >= ArgsAsked["use"]
    /\ Pipe_use_server
    /\ call'["server_id"] = ArgsGiven[1]

\* args[0].lower() in ("on", "true", "1", "yes") and in ("off", "false", "0", "no")
OnWords == { << "o", "n" >>, << "t", "r", "u", "e" >>, << "1" >>, << "y", "e", "s" >> }

OffWords == { << "o", "f", "f" >>, << "f", "a", "l", "s", "e" >>, << "0" >>, << "n", "o" >> }

\* "/mcp debug [on|off]"
CommandDebug ==
    /\ AtCommand(<< "d", "e", "b", "u", "g" >>)
    /\ DebugCommand
    /\ LET word == Lower(ArgOr(ArgsGiven, 1))
       IN  IF word \in OnWords THEN valves'["debug"] /\ StartsWith(reply', << "D", "e", "b", "u", "g", " ", "m", "o", "d", "e", " ", "e",
                                        "n", "a", "b", "l", "e", "d" >>)
           ELSE IF word \in OffWords
                THEN ~valves'["debug"] /\ StartsWith(reply', << "D", "e", "b", "u", "g", " ", "m", "o", "d", "e", " ", "d",
                                        "i", "s", "a", "b", "l", "e", "d" >>)
                ELSE StartsWith(reply', << "D", "e", "b", "u", "g", " ", "m", "o", "d", "e", " ", "i",
                                        "s", " ", "c", "u", "r", "r", "e", "n", "t", "l", "y" >>)

\* what _handle_command returns on the branches that write nothing
CommandText(command, d, v, active) ==
    IF Parts(command) = << >>
    THEN << "I", "n", "v", "a", "l", "i", "d", " ", "c", "o", "m", "m",
            "a", "n", "d", ".", " ", "U", "s", "e", " ", "'", "/", "m",
            "c", "p", " ", "h", "e", "l", "p", "'", " ", "t", "o", " ",
            "s", "e", "e", " ", "a", "v", "a", "i", "l", "a", "b", "l",
            "e", " ", "c", "o", "m", "m", "a", "n", "d", "s", "." >>
    ELSE LET cmd == Cmd(command)
             args == Args(command)
         IN  IF cmd = << "l", "i", "s", "t" >> THEN ListServers(d, v, active)
             ELSE IF cmd = << "p", "o", "p", "u", "l", "a", "r" >> THEN ListPopularServers
             ELSE IF cmd = << "a", "d", "d" >>
                  THEN << "E", "r", "r", "o", "r", ":", " ", "M", "i", "s", "s", "i",
                          "n", "g", " ", "a", "r", "g", "u", "m", "e", "n", "t", "s",
                          ".", " ", "U", "s", "a", "g", "e", ":", " ", "/", "m", "c",
                          "p", " ", "a", "d", "d", " ", "<", "n", ">", " ", "<", "u",
                          "r", "l", ">", " ", "[", "a", "p", "i", "_", "k", "e", "y",
                          "]", " ", "[", "d", "e", "f", "a", "u", "l", "t", "_", "m",
                          "o", "d", "e", "l", "]" >>
             ELSE IF cmd = << "a", "d", "d", "p" >>
                  THEN << "E", "r", "r", "o", "r", ":", " ", "M", "i", "s", "s", "i",
                          "n", "g", " ", "s", "e", "r", "v", "e", "r", "_", "i", "d",
                          ".", " ", "U", "s", "a", "g", "e", ":", " ", "/", "m", "c",
                          "p", " ", "a", "d", "d", "p", " ", "<", "s", "e", "r", "v",
                          "e", "r", "_", "i", "d", ">", " ", "[", "a", "p", "i", "_",
                          "k", "e", "y", "]", " ", "[", "d", "e", "f", "a", "u", "l",
                          "t", "_", "m", "o", "d", "e", "l", "]" >>
             ELSE IF cmd = << "d", "e", "l", "e", "t", "e" >>
                  THEN << "E", "r", "r", "o", "r", ":", " ", "M", "i", "s", "s", "i",
                          "n", "g", " ", "s", "e", "r", "v", "e", "r", "_", "i", "d",
                          ".", " ", "U", "s", "a", "g", "e", ":", " ", "/", "m", "c",
                          "p", " ", "d", "e", "l", "e", "t", "e", " ", "<", "s", "e",
                          "r", "v", "e", "r", "_", "i", "d", ">" >>
             ELSE IF cmd = << "u", "s", "e" >>
                  THEN << "E", "r", "r", "o", "r", ":", " ", "M", "i", "s", "s", "i",
                          "n", "g", " ", "s", "e", "r", "v", "e", "r", "_", "i", "d",
                          ".", " ", "U", "s", "a", "g", "e", ":", " ", "/", "m", "c",
                          "p", " ", "u", "s", "e", " ", "<", "s", "e", "r", "v", "e",
                          "r", "_", "i", "d", ">" >>
             ELSE IF cmd = << "a", "c", "t", "i", "v", "e" >> THEN ShowActiveServer(d, v, active)
             ELSE IF cmd = << "h", "e", "l", "p" >> \/ cmd = << >> THEN HelpText
             ELSE << "U", "n", "k", "n", "o", "w", "n", " ", "c", "o", "m", "m",
                     "a", "n", "d", ":", " " >> \o cmd \o << ".", " ", "U", "s", "e", " ", "'", "/", "m", "c", "p", " ",
                                        "h", "e", "l", "p", "'", " ", "t", "o", " ", "s", "e", "e",
                                        " ", "a", "v", "a", "i", "l", "a", "b", "l", "e", " ", "c",
                                        "o", "m", "m", "a", "n", "d", "s", "." >>

\* the command takes a branch of _handle_command that writes nothing: list,
\* popular, active, help, an unknown command, a command without its arguments
WritesNothing(command) ==
    \/ Parts(command) = << >>
    \/ /\ Cmd(command) # << "d", "e", "b", "u", "g" >>
       /\ Cmd(command) = << "a", "d", "d" >> => Len(Args(command)) < ArgsAsked["add"]
       /\ Cmd(command) = << "a", "d", "d", "p" >> => Len(Args(command)) < ArgsAsked["addp"]
       /\ Cmd(command) = << "d", "e", "l", "e", "t", "e" >> => Len(Args(command)) < ArgsAsked["delete"]
       /\ Cmd(command) = << "u", "s", "e" >> => Len(Args(command)) < ArgsAsked["use"]

\* the message is handled by such a branch
CommandShow ==
    /\ pc = "pipe_entry"
    /\ PipeRoute(Get(body, "messages", << >>)) = "command"
    /\ WritesNothing(Command(body["messages"]))
    /\ call' = Call("Pipe._handle_command", None, None, None, None, None)
    /\ reply' = CommandText(Command(body["messages"]), servers, valves, active_server)
    /\ UNCHANGED << servers, active_server, issued, relay_vars, stream_vars, payload_vars >>

\* "/mcp": _show_help()
PipeHelp ==
    /\ pc = "pipe_entry"
    /\ PipeRoute(Get(body, "messages", << >>)) = "help"
    /\ call' = Call("Pipe._show_help", None, None, None, None, None)
    /\ reply' = HelpText
    /\ UNCHANGED << servers, active_server, issued, relay_vars, stream_vars, payload_vars >>

\* any other message: "return await self._handle_chat(body, _event_emitter_)"
PipeChat ==
    /\ pc = "pipe_entry"
    /\ PipeRoute(Get(body, "messages", << >>)) = "chat"
    /\ pc' = "pipe"
    /\ UNCHANGED << valves, server_config, body, sink, urls_to_try, idx, payload_stream,
                    requests, resp, result, retsite, open_contexts, sink_called >>
    /\ UNCHANGED other_vars

\* the contents of the last message: commands, in the forms the parser tells
\* apart, and texts that are not commands
CommandContents ==
    { TextMcp,
      << "/", "m", "c", "p", " " >>,
      << " ", "/", "m", "c", "p", "\n" >>,
      << "/", "m", "c", "p", " ", "h", "e", "l", "p" >>,
      << "/", "m", "c", "p", " ", "l", "i", "s", "t" >>,
      << "/", "m", "c", "p", " ", "p", "o", "p", "u", "l", "a", "r" >>,
      << "/", "m", "c", "p", " ", "a", "c", "t", "i", "v", "e" >>,
      << "/", "m", "c", "p", " ", "b", "o", "g", "u", "s" >>,
      << "/", "m", "c", "p", " ", "u", "s", "e" >>,
      << "/", "m", "c", "p", " ", "u", "s", "e", " " >> \o << "<uuid-1>" >>,
      << "/", "m", "c", "p", " ", " ", "U", "S", "E", " ", " " >> \o UnknownId \o << " " >>,
      << "/", "m", "c", "p", " ", "d", "e", "l", "e", "t", "e", " " >> \o << "<uuid-1>" >>,
      << "/", "m", "c", "p", " ", "a", "d", "d", " " >> \o NameA,
      << "/", "m", "c", "p", " ", "a", "d", "d", " " >> \o NameA \o << " " >> \o UrlA,
      << "/", "m", "c", "p", " ", "a", "d", "d", " " >> \o NameA \o << " ", "f", "t", "p", ":", "/", "/", "a" >>,
      << "/", "m", "c", "p", " ", "a", "d", "d", "p" >>,
      << "/", "m", "c", "p", " ", "a", "d", "d", "p", " " >> \o << "brave_search" >>,
      << "/", "m", "c", "p", " ", "a", "d", "d", "p", " " >> \o << "brave_search" >> \o << " ", "k" >>,
      << "/", "m", "c", "p", " ", "d", "e", "b", "u", "g" >>,
      << "/", "m", "c", "p", " ", "d", "e", "b", "u", "g", " ", "Y",
         "E", "S" >>,
      << "/", "m", "c", "p", " ", "d", "e", "b", "u", "g", " ", "o",
         "f", "f" >> }

ChatContents ==
    { TextQuery,
      << "/", "m", "c", "p", "x" >>,
      << "/", "m", "c", "p" >> \o << "\t" >> \o << "l", "i", "s", "t" >>,
      << "q", " ", "/", "m", "c", "p", " ", "l", "i", "s", "t" >> }

\* the conversations: the last message a command; the last message a text, after
\* a command or not; the last message without content; no message
PipeConversations ==
    { << [role |-> "user", content |-> c] >> : c \in CommandContents \cup ChatContents }
    \cup { << [role |-> "user", content |-> << "/", "m", "c", "p", " ", "l", "i", "s", "t" >>], AssistantTurn, UserTurn >>,
           << UserTurn, [role |-> "user"] >>,
           << >> }

InitPipe ==
    /\ servers \in { Put(<< >>, << "<uuid-1>" >>, RecordA), TwoServers }
    /\ issued = DOMAIN servers
    /\ active_server \in { << >> } \cup DOMAIN servers
    /\ call = NoCall
    /\ reply = NoResult
    /\ valves \in [server_id : { << >> }, stream : BOOLEAN, debug : { FALSE }]
    /\ server_config = [url |-> << >>]
    /\ body \in [messages : PipeConversations]
    /\ sink = "ok"
    /\ pc = "pipe_entry"
    /\ urls_to_try = << >>
    /\ idx = 0
    /\ payload_stream = FALSE
    /\ requests = << >>
    /\ resp = NoAnswer
    /\ result = NoResult
    /\ retsite = "none"
    /\ open_contexts = << >>
    /\ sink_called = FALSE
    /\ StreamIdle
    /\ PayloadIdle

NextPipe ==
    \/ PipeHelp
    \/ CommandShow
    \/ CommandAdd
    \/ CommandAddp
    \/ CommandDelete
    \/ CommandUse
    \/ CommandDebug
    \/ PipeChat
    \/ ResolveServer
    \/ Next

SpecPipe == InitPipe /\ [][NextPipe]_vars

(***************************************************************************)
(* The streaming pass of Pipe._try_streaming with the body of every        *)
(* candidate that answers 200 followed line by line: a body may end, hold  *)
(* a line that is no UTF-8, or break off when the transport fails.         *)
(***************************************************************************)
\* the streaming pass is about to try its first candidate
InitCandidates ==
    /\ valves = [stream |-> TRUE, debug |-> FALSE]
    /\ server_config = [url |-> UrlA]
    /\ body = [messages |-> << UserTurn >>]
    /\ sink \in { "none", "flaky" }
    /\ pc = "try_streaming"
    /\ urls_to_try = UrlsToTry(UrlA)
    /\ idx = 1
    /\ payload_stream = TRUE
    /\ requests = << >>
    /\ resp = NoAnswer
    /\ result = NoResult
    /\ retsite = "none"
    /\ open_contexts = << "session" >>
    /\ sink_called = (sink # "none")
    /\ StreamIdle
    /\ PayloadIdle
    /\ StoreIdle

\* "async with session.post(...) as response": the answer of the candidate; with
\* status 200 full_response starts empty and the line loop begins
CandidateAnswers ==
    /\ pc = "streaming_wait"
    /\ stream_state = "idle"
    /\ \E a \in { NoAnswer, Answer(200, FALSE, << >>, NoDocument, << >>) } \cup ErrorAnswers :
          /\ Answered(a, FALSE)
          /\ IF ~a.sent
             THEN ExceptHandler("try_streaming") /\ WithBlocks(WithResponse)
                  /\ UNCHANGED stream_vars
             ELSE IF a.status = 200
                  THEN /\ full_response' = << >>
                       /\ body_lines' = << >>
                       /\ stream_state' = "reading"
                       /\ open_contexts' = WithResponse
                       /\ UNCHANGED << pc, idx, payload_stream, result, retsite >>
                  ELSE /\ IF ShowsError(a.status)
                          THEN IF a.read
                               THEN StreamingReturned(StreamErrorText(a.status, a.text))
                               ELSE ExceptHandler("try_streaming")
                          ELSE Goto("try_streaming", idx + 1, payload_stream)
                       /\ WithBlocks(WithResponse)
                       /\ UNCHANGED stream_vars
    /\ UNCHANGED << valves, server_config, body, sink, sink_called, urls_to_try >>
    /\ UNCHANGED << payload_vars, store_vars >>

\* "async for line in response.content" raises: the connection broke or the
\* timeout ran out while the body was read
TransportFails ==
    /\ stream_state = "reading"
    /\ stream_state' = "aborted"
    /\ UNCHANGED << body_lines, full_response, relay_vars, payload_vars, store_vars >>

\* "except Exception as e" of the url loop after the line loop was left by an
\* exception: full_response is not read again before the next "full_response = ''"
CandidateAborted ==
    /\ pc = "streaming_wait"
    /\ stream_state = "aborted"
    /\ ExceptHandler("try_streaming")
    /\ WithBlocks(open_contexts)
    /\ stream_state' = "idle"
    /\ UNCHANGED << body_lines, full_response >>
    /\ UNCHANGED << valves, server_config, body, sink, sink_called, urls_to_try, requests, resp >>
    /\ UNCHANGED << payload_vars, store_vars >>

\* after the line loop: the completion event, "return full_response", and
\* _handle_general_mcp with that streaming_result
CandidateReturns ==
    /\ pc = "streaming_wait"
    /\ stream_state = "returned"
    /\ requests' = [requests EXCEPT ![Len(requests)].met = "200"]
    /\ \E e \in EmitResults(TRUE) :
          IF e = "raise" THEN ExceptHandler("try_streaming")
          ELSE StreamingReturned(full_response)
    /\ WithBlocks(open_contexts)
    /\ stream_state' = "idle"
    /\ UNCHANGED << body_lines, full_response >>
    /\ UNCHANGED << valves, server_config, body, sink, sink_called, urls_to_try, resp >>
    /\ UNCHANGED << payload_vars, store_vars >>

NextCandidates ==
    \/ TryStreamingPost
    \/ CandidateAnswers
    \/ ReadLine
    \/ ReadInvalidLine
    \/ TransportFails
    \/ EndOfBody
    \/ CandidateAborted
    \/ CandidateReturns
    \/ TryStreamingExhausted

SpecCandidates == InitCandidates /\ [][NextCandidates]_vars
(***************************************************************************)
(* The package Pipe (mcp_connector/mcp_pipe.py): a streaming request.  In  *)
(* this part server_config is the server record pipe() found, requests the *)
(* request of _handle_streaming_request, open_contexts its "async with"    *)
(* blocks, body_lines the lines the returned iterator took from            *)
(* response.content, full_response the strings it yielded to its caller,   *)
(* stream_state where the iterator is, result the dictionary pipe()        *)
(* returned in place of an iterator.                                        *)
(***************************************************************************)
\* the value pipe() returns when _handle_streaming_request returned
ResponseIterator == << "<async_generator response_iterator>" >>

\* {"error": f"MCP connection error: {error_message}"}
PkgConnectionError(error_message) == << "M", "C", "P", " ", "c", "o", "n", "n", "e", "c", "t", "i",
                                        "o", "n", " ", "e", "r", "r", "o", "r", ":", " " >> \o error_message

\* str(e) of Exception(f"HTTP {response.status}: {error_text[:100]}")
PkgHttpError(status, error_text) == << "H", "T", "T", "P", " " >> \o NumStr(status) \o << ":", " " >> \o Excerpt(error_text)

\* str(e) of the exceptions raised for asyncio.TimeoutError and aiohttp.ClientError
PkgTransportErrors ==
    { << "C", "o", "n", "n", "e", "c", "t", "i", "o", "n", " ", "t",
         "i", "m", "e", "o", "u", "t", " ", "a", "f", "t", "e", "r",
         " ", "3", "0", " ", "s", "e", "c", "o", "n", "d", "s" >>, << "C", "o", "n", "n", "e", "c", "t", "i", "o", "n", " ", "e",
                                        "r", "r", "o", "r", ":", " " >> \o OpaqueException }

\* line_str of response_iterator, << >> when the line yields nothing
LineStr(line) ==
    LET stripped == Strip(line)
        line_str == IF StartsWith(stripped, PrefixData)
                    THEN SubSeq(stripped, Len(PrefixData) + 1, Len(stripped))
                    ELSE stripped
    IN IF line_str # TextDoneBare THEN line_str ELSE << >>

InitIterator ==
    /\ server_config \in { [name |-> << "a" >>, url |-> UrlA],
                           [name |-> << "a" >>, url |-> UrlA, api_key |-> << "k" >>] }
    /\ body = [messages |-> << UserTurn >>]
    /\ valves = [stream |-> TRUE, debug |-> FALSE]
    /\ sink = "none"
    /\ pc = "pkg_streaming"
    /\ urls_to_try = << >>
    /\ idx = 0
    /\ payload_stream = TRUE
    /\ requests = << >>
    /\ resp = NoAnswer
    /\ result = NoResult
    /\ retsite = "none"
    /\ open_contexts = << >>
    /\ sink_called = FALSE
    /\ StreamIdle
    /\ PayloadIdle
    /\ StoreIdle

\* _handle_streaming_request up to its request, inside "async with ... as session"
HandleStreamingRequest ==
    /\ pc = "pkg_streaming"
    /\ Issue("POST", server_config["url"] \o PathV1Chat, TRUE)
    /\ open_contexts' = << "session" >>
    /\ pc' = "pkg_wait"
    /\ UNCHANGED << valves, server_config, body, sink, sink_called, urls_to_try, idx,
                    payload_stream, resp, result, retsite >>
    /\ UNCHANGED other_vars

\* _handle_streaming_request from the answer on, and pipe() with what it gives.
\* With status 200 response_iterator() is called, which runs no statement of the
\* generator, and returned from inside both "async with" blocks: the return
\* leaves them, so the response and the session are released before pipe()
\* hands the iterator to its caller.  Anything else is raised and pipe() returns
\* the error dictionary.
StreamingRequestAnswered ==
    /\ pc = "pkg_wait"
    /\ \E a \in { NoAnswer, Answer(200, FALSE, << >>, NoDocument, << >>) } \cup ErrorAnswers :
          /\ Answered(a, FALSE)
          /\ IF a.sent /\ a.status = 200
             THEN /\ pc' = "iterating"
                  /\ result' = ResponseIterator
                  /\ retsite' = "L199"
                  /\ stream_state' = "reading"
                  /\ open_contexts' = Leave(WithResponse, 0, "return")
             ELSE /\ pc' = "done"
                  /\ retsite' = "L207"
                  /\ open_contexts' = Leave(WithResponse, 0, "raise")
                  /\ UNCHANGED stream_state
                  /\ IF a.sent /\ a.read
                     THEN result' = PkgConnectionError(PkgHttpError(a.status, a.text))
                     ELSE \E e \in PkgTransportErrors : result' = PkgConnectionError(e)
    /\ UNCHANGED << valves, server_config, body, sink, sink_called, urls_to_try, idx,
                    payload_stream, body_lines, full_response >>
    /\ UNCHANGED << payload_vars, store_vars >>

\* the caller asks the iterator for its next item and "async for line in
\* response.content" gives a line: one the reader still held when the response
\* was released
IteratorReadsLine ==
    /\ pc = "iterating"
    /\ stream_state = "reading"
    /\ Len(body_lines) < MaxBody
    /\ \E line \in BodyLines :
          /\ Decodes(line)
          /\ body_lines' = Append(body_lines, line)
          /\ full_response' = IF LineStr(line) # << >>
                              THEN Append(full_response, LineStr(line))
                              ELSE full_response
    /\ UNCHANGED << stream_state, relay_vars, payload_vars, store_vars >>

\* the read raises in the caller: the connection was closed under the reader, or
\* the line is no UTF-8; no try of pipe() is around it any more
IteratorRaises ==
    /\ pc = "iterating"
    /\ stream_state = "reading"
    /\ stream_state' = "aborted"
    /\ UNCHANGED << body_lines, full_response, relay_vars, payload_vars, store_vars >>

\* the reader reports the end of the body
IteratorEnds ==
    /\ pc = "iterating"
    /\ stream_state = "reading"
    /\ stream_state' = "returned"
    /\ UNCHANGED << body_lines, full_response, relay_vars, payload_vars, store_vars >>

NextIterator ==
    \/ HandleStreamingRequest
    \/ StreamingRequestAnswered
    \/ IteratorReadsLine
    \/ IteratorRaises
    \/ IteratorEnds

SpecIterator == InitIterator /\ [][NextIterator]_vars
(***************************************************************************)
(* The package Pipe (mcp_connector/mcp_pipe.py): the model IDs pipes()     *)
(* lists and pipe() takes apart.  In this part servers is self.servers (a  *)
(* list of records), reply the list pipes() returned, body the request     *)
(* given to pipe(), call the listed entry the request names, server_config *)
(* the server pipe() found, mcp_payload the payload it built, result the   *)
(* message of the error dictionary it returned instead.                    *)
(***************************************************************************)
\* s.replace(old, new) for a non-empty old
RECURSIVE ReplaceAll(_, _, _)
ReplaceAll(s, old, new) ==
    IF Len(s) < Len(old) THEN s
    ELSE IF StartsWith(s, old)
         THEN new \o ReplaceAll(SubSeq(s, Len(old) + 1, Len(s)), old, new)
         ELSE << s[1] >> \o ReplaceAll(Tail(s), old, new)

\* s.split(sep, 1) for a separator of one character
SplitOnce(s, sep) ==
    IF \E i \in DOMAIN s : s[i] = sep
    THEN LET k == CHOOSE i \in DOMAIN s : s[i] = sep /\ \A j \in 1..(i - 1) : s[j] # sep
         IN << SubSeq(s, 1, k - 1), SubSeq(s, k + 1, Len(s)) >>
    ELSE << s >>

PrefixMcp == << "m", "c", "p", "_" >>

PrefixMcpError == << "m", "c", "p", "_", "e", "r", "r", "o", "r", "_" >>

TextError == << "e", "r", "r", "o", "r" >>

NAME_PREFIX == << "M", "C", "P", "/" >>

\* server_name.replace(' ', '_').lower()
ServerKey(server_name) == Lower(ReplaceAll(server_name, << " " >>, << "_" >>))

\* a key that keeps the name as it is
ServerKeyPlain(server_name) == server_name

\* the "id" of a listed model
ListedId(server_name, model_id) == PrefixMcp \o ServerKey(server_name) \o << "." >> \o model_id

\* the entries pipes() adds for one server that answered 200 with these models;
\* the fields server and model_id are not in the dictionary: they record which
\* server and model the entry was made from
RECURSIVE ModelEntries(_, _, _)
ModelEntries(k, server, models) ==
    IF models = << >> THEN << >>
    ELSE << [id |-> ListedId(server["name"], models[1]),
             name |-> NAME_PREFIX \o server["name"] \o << "/" >> \o models[1],
             server |-> k, model_id |-> models[1]] >>
         \o ModelEntries(k, server, Tail(models))

\* the entry of a server without url, or whose models could not be fetched
ErrorEntry(k, server, why) ==
    [id |-> PrefixMcpError \o ServerKey(server["name"]),
     name |-> NAME_PREFIX \o server["name"] \o why,
     server |-> k, model_id |-> None]

\* all_models of pipes() after the servers from k on, answers[k] being what
\* server k answered
RECURSIVE AllModels(_, _, _)
AllModels(k, list, answers) ==
    IF k > Len(list) THEN << >>
    ELSE (IF Get(list[k], "url", << >>) = << >>
          THEN << ErrorEntry(k, list[k], << " ", "-", " ", "M", "i", "s", "s", "i", "n", "g", " ", "U",
                                        "R", "L" >>) >>
          ELSE IF ~answers[k].ok
               THEN << ErrorEntry(k, list[k], << " ", "-", " ", "C", "o", "n", "n", "e", "c", "t", "i", "o",
                                        "n", " ", "E", "r", "r", "o", "r" >>) >>
               ELSE ModelEntries(k, list[k], answers[k].data))
         \o AllModels(k + 1, list, answers)

\* the names of the configured servers: plain, with a space and capitals, with
\* a '.', with 'mcp_' and with 'error' inside
ServerNames == { << "b", "o", "x" >>, << "a" >>, << "M", "y", " ", "B", "o", "x" >>, << "a", ".", "b" >>, << "m", "c", "p", "_", "x" >>, << "t", "e", "r", "r", "o", "r" >> }

\* the model ids a server lists: plain, with a '.', with 'mcp_', with 'error'
ModelIds == { << "m" >>, << "g", "p", "t", ".", "4" >>, << "m", "c", "p", "_", "m" >>, << "m", "-", "e", "r", "r", "o", "r" >> }

\* what a server answers to GET /v1/models: no list, an empty one, one model
ModelAnswers ==
    { [ok |-> FALSE, data |-> << >>], [ok |-> TRUE, data |-> << >>] }
    \cup { [ok |-> TRUE, data |-> << m >>] : m \in ModelIds }

ServerRecords ==
    { [name |-> n, url |-> UrlA] : n \in ServerNames } \cup { [name |-> << "b", "o", "x" >>] }

\* self.servers: no server, one, or two with different names
ServerLists ==
    { << >> } \cup { << s >> : s \in ServerRecords }
    \cup { p \in ServerRecords \X ServerRecords : p[1]["name"] # p[2]["name"] }

NoEntry == [id |-> None, name |-> None, server |-> 0, model_id |-> None]

InitModelIds ==
    /\ servers \in ServerLists
    /\ active_server = << >>
    /\ issued = { }
    /\ call = NoEntry
    /\ reply = NoResult
    /\ server_config = [none |-> 0]
    /\ body = [messages |-> << UserTurn >>]
    /\ valves = [stream |-> FALSE, debug |-> FALSE]
    /\ sink = "none"
    /\ pc = "pkg_pipes"
    /\ urls_to_try = << >>
    /\ idx = 0
    /\ payload_stream = FALSE
    /\ requests = << >>
    /\ resp = NoAnswer
    /\ result = NoResult
    /\ retsite = "none"
    /\ open_contexts = << >>
    /\ sink_called = FALSE
    /\ StreamIdle
    /\ PayloadIdle

\* pipes(): every server with a url is asked for its models
PkgPipes ==
    /\ pc = "pkg_pipes"
    /\ \E answers \in [DOMAIN servers -> ModelAnswers] :
          reply' = IF servers = << >>
                   THEN << [id |-> << "m", "c", "p", "_", "n", "o", "t", "_", "c", "o", "n", "f",
                                      "i", "g", "u", "r", "e", "d" >>, name |-> NAME_PREFIX \o << "N", "o", "t", " ", "C", "o", "n", "f", "i", "g", "u", "r",
                                        "e", "d" >>,
                            server |-> 0, model_id |-> None] >>
                   ELSE IF AllModels(1, servers, answers) = << >>
                   THEN << [id |-> << "m", "c", "p", "_", "n", "o", "_", "m", "o", "d", "e", "l",
                                      "s" >>, name |-> NAME_PREFIX \o << "N", "o", " ", "M", "o", "d", "e", "l", "s", " ", "F", "o",
                                        "u", "n", "d" >>,
                            server |-> 0, model_id |-> None] >>
                   ELSE AllModels(1, servers, answers)
    /\ pc' = "pkg_pipe"
    /\ UNCHANGED << servers, active_server, issued, call >>
    /\ UNCHANGED << valves, server_config, body, sink, urls_to_try, idx, payload_stream,
                    requests, resp, result, retsite, open_contexts, sink_called >>
    /\ UNCHANGED << stream_vars, payload_vars >>

\* the server pipe() finds for server_id: the first whose key is server_id
FoundServers(server_id) ==
    { k \in DOMAIN servers :
        /\ ServerKey(Get(servers[k], "name", << >>)) = server_id
        /\ \A j \in 1..(k - 1) : ServerKey(Get(servers[j], "name", << >>)) # server_id }

\* pipe() with the id of a listed entry as body["model"], up to the dispatch
PkgPipe ==
    /\ pc = "pkg_pipe"
    /\ \E i \in DOMAIN reply :
          LET model == reply[i]["id"]
              parts == SplitOnce(model, ".")
              server_id == ReplaceAll(parts[1], PrefixMcp, << >>)
              model_id == parts[2]
              found == FoundServers(server_id)
              Refuse(text, site) ==
                  /\ result' = text /\ retsite' = site /\ pc' = "done"
                  /\ UNCHANGED << server_config, mcp_payload >>
          IN /\ call' = reply[i]
             /\ body' = [model |-> model, messages |-> << UserTurn >>]
             /\ IF ~StartsWith(model, PrefixMcp)
                THEN Refuse(<< "I", "n", "v", "a", "l", "i", "d", " ", "M", "C", "P", " ",
                               "m", "o", "d", "e", "l", " ", "f", "o", "r", "m", "a", "t" >>, "L161")
                ELSE IF Contains(model, TextError)
                THEN \/ Refuse(reply[i]["name"], "L165")
                     \/ Refuse(<< "U", "n", "k", "n", "o", "w", "n", " ", "e", "r", "r", "o",
                                  "r" >>, "L165")
                ELSE IF Len(parts) # 2
                THEN Refuse(<< "I", "n", "v", "a", "l", "i", "d", " ", "M", "C", "P", " ",
                               "m", "o", "d", "e", "l", " ", "f", "o", "r", "m", "a", "t" >>, "L169")
                ELSE IF found = { }
                THEN Refuse(<< "M", "C", "P", " ", "s", "e", "r", "v", "e", "r", " ", "'" >> \o server_id \o << "'", " ", "n", "o", "t", " ", "f", "o", "u", "n", "d" >>, "L178")
                ELSE LET server == servers[CHOOSE k \in found : TRUE]
                     IN IF Get(server, "url", << >>) = << >>
                        THEN Refuse(<< "M", "C", "P", " ", "s", "e", "r", "v", "e", "r", " ", "'" >> \o server_id \o << "'", " ", "h", "a", "s", " ", "n", "o", " ", "U", "R", "L",
                                        " ", "c", "o", "n", "f", "i", "g", "u", "r", "e", "d" >>, "L184")
                        ELSE /\ server_config' = server
                             /\ mcp_payload' = [model |-> model_id, messages |-> << UserTurn >>]
                             /\ pc' = "pkg_dispatch"
                             /\ UNCHANGED << result, retsite >>
    /\ UNCHANGED << valves, sink, urls_to_try, idx, payload_stream, requests, resp,
                    open_contexts, sink_called >>
    /\ UNCHANGED << servers, active_server, issued, reply, headers, stream_vars >>

NextModelIds ==
    \/ PkgPipes
    \/ PkgPipe

SpecModelIds == InitModelIds /\ [][NextModelIds]_vars
(***************************************************************************)
(* The store under two callers.  Pipe commands and Action methods read     *)
(* and write the same two files with load_mcp_servers, save_mcp_servers,   *)
(* load_mcp_config and save_mcp_config and take no lock.  Inside one event *)
(* loop a method runs from its load to its save without an await; two      *)
(* callers in different worker processes take their steps in any order.    *)
(* Here servers and active_server are the two files, and call[p] is what   *)
(* caller p is doing: the operation, the next file access of it, the       *)
(* dictionary it holds (the local servers of a Pipe method, self.servers   *)
(* of an Action), and the ids it has added and asked to delete.            *)
(***************************************************************************)
Callers == { 1, 2 }

\* the most operations the two callers start
MaxCalls == 3

PipeOps == { "Pipe._add_server", "Pipe._delete_server", "Pipe._use_server" }

ActionOps == { "Action.add_server", "Action.update_server", "Action.delete_server" }

\* the urls given to an add or an update: one that passes the validation, one that
\* does not
UrlsGiven == { UrlA, << "f", "t", "p", ":", "/", "/", "a" >> }

\* the name, url and api_key given to update_server: a name alone, a name and a
\* key with a url that does not pass the validation, a key with one that does
UpdatesGiven ==
    { << NameB, None, None >>,
      << NameB, << "f", "t", "p", ":", "/", "/", "a" >>, << "k" >> >>,
      << None, UrlA, << "k" >> >> }

\* the record Action.add_server stores
ActionRecord(name, url) ==
    [name |-> name, url |-> url, api_key |-> << >>, default_model |-> << >>]

\* the record Pipe._add_server stores
PipeRecord(name, url) ==
    [name |-> name, url |-> url, api_key |-> << >>, default_model |-> << >>,
     chat_endpoint |-> get_chat_endpoint(url)]

\* self.servers of Action.update_server when it returns, from the dictionary
\* it loaded: the name is assigned before the url is validated, the url and the
\* api key only after the validation
UpdateInMemory(loaded, server_id, name, url, api_key) ==
    IF server_id \notin DOMAIN loaded THEN loaded
    ELSE LET server == loaded[server_id]
             named == IF name # None THEN [server EXCEPT !["name"] = name] ELSE server
             keyed == IF api_key # None THEN [named EXCEPT !["api_key"] = api_key] ELSE named
         IN  IF url # None
             THEN IF ~StartsWithScheme(url) THEN Put(loaded, server_id, named)
                  ELSE Put(loaded, server_id, [keyed EXCEPT !["url"] = url])
             ELSE Put(loaded, server_id, keyed)

\* update_server reaches save_mcp_servers
UpdateSaves(loaded, server_id, url) ==
    server_id \in DOMAIN loaded /\ (url = None \/ StartsWithScheme(url))

\* caller p starts an operation and it goes on to its next file access
Goes(p, op, step, server_id, held) ==
    call' = [call EXCEPT ![p] = [@ EXCEPT !.op = op, !.step = step, !.server_id = server_id,
                                          !.self_servers = held, !.returned = "none",
                                          !.calls = @ + 1,
                                          !.removed = IF op \in { "Pipe._delete_server",
                                                                  "Action.delete_server" }
                                                      THEN @ \cup { server_id } ELSE @]]

\* caller p starts an operation and it returns an error after its load
Fails(p, op, server_id, held) ==
    call' = [call EXCEPT ![p] = [@ EXCEPT !.op = op, !.step = "idle", !.server_id = server_id,
                                          !.self_servers = held, !.returned = "error",
                                          !.calls = @ + 1]]

\* the operation of caller p returns its success message
Succeeds(p) ==
    call' = [call EXCEPT ![p] = [@ EXCEPT !.step = "idle", !.returned = "ok",
                                          !.added = IF call[p].op \in { "Pipe._add_server",
                                                                        "Action.add_server" }
                                                    THEN @ \cup { call[p].server_id } ELSE @]]

InitCallers ==
    /\ RelayIdle
    /\ StreamIdle
    /\ PayloadIdle
    /\ servers = << >>
    /\ active_server = << >>
    /\ issued = { }
    /\ reply = NoResult
    /\ call = [p \in Callers |->
                [op |-> "none", step |-> "idle", server_id |-> None, self_servers |-> << >>,
                 is_active |-> FALSE, returned |-> "none", added |-> { }, removed |-> { },
                 calls |-> 0]]

\* _add_server and add_server from load_mcp_servers to the assignment of the
\* new record
CallerAdds(p) ==
    /\ call[p].step = "idle"
    /\ call[1].calls + call[2].calls < MaxCalls
    /\ \E op \in { "Pipe._add_server", "Action.add_server" }, url \in UrlsGiven :
          IF ~StartsWithScheme(url)
          THEN Fails(p, op, None, servers) /\ UNCHANGED issued
          ELSE \E server_id \in Uuids \ issued :
                  /\ Goes(p, op, "save_servers", server_id,
                          Put(servers, server_id,
                              IF op = "Pipe._add_server" THEN PipeRecord(NameA, url)
                              ELSE ActionRecord(NameA, url)))
                  /\ issued' = issued \cup { server_id }
    /\ UNCHANGED << servers, active_server, reply, relay_vars, stream_vars, payload_vars >>

\* _delete_server and delete_server from load_mcp_servers to "del"
CallerDeletes(p) ==
    /\ call[p].step = "idle"
    /\ call[1].calls + call[2].calls < MaxCalls
    /\ \E op \in { "Pipe._delete_server", "Action.delete_server" },
          server_id \in Uuids \cup { UnknownId } :
          IF server_id \notin DOMAIN servers
          THEN Fails(p, op, server_id, servers)
          ELSE Goes(p, op, IF op = "Pipe._delete_server" THEN "load_config" ELSE "save_servers",
                    server_id, Del(servers, server_id))
    /\ UNCHANGED << servers, active_server, issued, reply, relay_vars, stream_vars, payload_vars >>

\* _use_server up to load_mcp_config
CallerUses(p) ==
    /\ call[p].step = "idle"
    /\ call[1].calls + call[2].calls < MaxCalls
    /\ \E server_id \in Uuids \cup { UnknownId } :
          IF server_id \notin DOMAIN servers
          THEN Fails(p, "Pipe._use_server", server_id, servers)
          ELSE Goes(p, "Pipe._use_server", "save_config", server_id, servers)
    /\ UNCHANGED << servers, active_server, issued, reply, relay_vars, stream_vars, payload_vars >>

\* update_server from load_mcp_servers to its return or to save_mcp_servers
CallerUpdates(p) ==
    /\ call[p].step = "idle"
    /\ call[1].calls + call[2].calls < MaxCalls
    /\ \E server_id \in Uuids \cup { UnknownId }, given \in UpdatesGiven :
          LET name == given[1]
              url == given[2]
              held == UpdateInMemory(servers, server_id, name, url, given[3])
          IN  IF UpdateSaves(servers, server_id, url)
              THEN Goes(p, "Action.update_server", "save_servers", server_id, held)
              ELSE Fails(p, "Action.update_server", server_id, held)
    /\ UNCHANGED << servers, active_server, issued, reply, relay_vars, stream_vars, payload_vars >>

\* _delete_server: load_mcp_config and is_active
LoadConfig(p) ==
    /\ call[p].step = "load_config"
    /\ call' = [call EXCEPT ![p] = [@ EXCEPT !.step = "save_servers",
                                             !.is_active = IsActive(call[p].server_id,
                                                                    active_server)]]
    /\ UNCHANGED << servers, active_server, issued, reply, relay_vars, stream_vars, payload_vars >>

\* save_mcp_servers of the dictionary the caller holds; the methods of the Action
\* and a _delete_server of a server that was not active return after it
SaveServers(p) ==
    /\ call[p].step = "save_servers"
    /\ servers' = call[p].self_servers
    /\ IF call[p].op = "Pipe._add_server"
          \/ (call[p].op = "Pipe._delete_server" /\ call[p].is_active)
       THEN call' = [call EXCEPT ![p] = [@ EXCEPT !.step = "save_config"]]
       ELSE Succeeds(p)
    /\ UNCHANGED << active_server, issued, reply, relay_vars, stream_vars, payload_vars >>

\* load_mcp_config, the assignment of "active_server" and save_mcp_config
SaveConfig(p) ==
    /\ call[p].step = "save_config"
    /\ active_server' = IF call[p].op = "Pipe._delete_server" THEN << >>
                        ELSE call[p].server_id
    /\ Succeeds(p)
    /\ UNCHANGED << servers, issued, reply, relay_vars, stream_vars, payload_vars >>

NextCallers ==
    \E p \in Callers :
        \/ CallerAdds(p)
        \/ CallerDeletes(p)
        \/ CallerUses(p)
        \/ CallerUpdates(p)
        \/ LoadConfig(p)
        \/ SaveServers(p)
        \/ SaveConfig(p)

SpecCallers == InitCallers /\ [][NextCallers]_vars
(***************************************************************************)
(* The claims.                                                             *)
(***************************************************************************)
Done == pc = "done"

\* what a candidate that fails without ending the relay has met: a 404, a
\* transport failure of the request, a 200 whose body could not be read
NonTerminalMet == { "404", "transport", "200_unread" }

\* the text the 200 answer handled last normalizes to
ContentOf(a, stream) == IF stream THEN FullResponse(a.lines) ELSE MessageContent(a.json)

\* request i is the last one, and the relay returned the provider error with its status
CarriesStatus(i) ==
    /\ Done
    /\ i = Len(requests)
    /\ retsite \in { "L374", "L443" }
    /\ StartsWith(result, MsgConnStatus \o NumStr(requests[i].status) \o MsgDash)

C2_Fallback ==
    /\ (Done /\ Len(requests) > 0 /\ requests[Len(requests)].method = "POST"
          /\ requests[Len(requests)].met \in NonTerminalMet)
         => retsite = "L464"
    /\ \A i \in 2..Len(requests) :
          requests[i].met = "200"
             => /\ Done
                /\ i = Len(requests)
                /\ result = ContentOf(resp, requests[i].stream)

\* every candidate was requested in every pass, and each request met a 404 or a
\* transport failure
AllCandidatesFailed ==
    /\ Len(requests) = (IF valves.stream THEN 2 ELSE 1) * Len(urls_to_try)
    /\ \A i \in 1..Len(requests) : requests[i].met \in NonTerminalMet

\* C3: the relay returns the "Could not connect to MCP server" error when every
\* candidate returned 404 or failed at transport level, in the streaming pass when
\* enabled and then in the non-streaming pass, and only then.
C3_Exhaustion ==
    (Done /\ urls_to_try # << >>) => (AllCandidatesFailed <=> retsite = "L464")

\* C4: when a candidate answers 200 in the streaming pass, the text normalized from
\* its body is what the relay returns, whatever the body holds: no request follows.
C4_StreamingTerminal ==
    \A i \in 1..Len(requests) :
        (requests[i].stream /\ requests[i].met = "200")
            => /\ Done
               /\ i = Len(requests)
               /\ retsite = "L374"
               /\ result = FullResponse(resp.lines)

\* every candidate was requested with stream=true and met a 404 or a transport failure
StreamingPassFailed ==
    /\ valves.stream
    /\ urls_to_try # << >>
    /\ Len(requests) >= Len(urls_to_try)
    /\ \A i \in 1..Len(urls_to_try) :
          /\ requests[i].stream
          /\ requests[i].url = urls_to_try[i]
          /\ requests[i].met \in NonTerminalMet

\* C5: when every candidate failed without ending the relay in the streaming pass,
\* the relay goes through the same candidates in the same order with stream=false.
C5_SecondPass ==
    StreamingPassFailed
        => /\ Done => Len(requests) > Len(urls_to_try)
           /\ \A i \in (Len(urls_to_try) + 1)..Len(requests) :
                 /\ ~requests[i].stream
                 /\ requests[i].url = urls_to_try[i - Len(urls_to_try)]

\* C6: with valves.stream false no request carries stream=true and _try_streaming
\* is never entered.
C6_NonStreamingOnly ==
    ~valves.stream
        => /\ \A i \in 1..Len(requests) : ~requests[i].stream
           /\ pc \notin { "try_streaming", "streaming_wait" }
           /\ retsite # "L374"
           /\ ~payload_stream

\* C6: a relay with streaming disabled that requested both candidates and returned
\* the content of the second
C6_Witness ==
    /\ ~valves.stream
    /\ Done
    /\ Len(requests) = 2
    /\ requests[1].met = "404"
    /\ retsite = "L431"

EmptyChoicesAnswered ==
    /\ pc = "non_streaming_wait"
    /\ pc' # pc
    /\ resp'.sent /\ resp'.status = 200 /\ resp'.read
    /\ ("choices" \notin DOMAIN resp'.json \/ Len(resp'.json["choices"]) = 0)

C8_OneOutcome ==
    [][(pc = "streaming_wait" /\ pc' = "non_streaming")
         => ~(resp'.sent /\ resp'.status = 200 /\ resp'.read)]_vars

\* the candidate list C9 describes for a record
ExpectedCandidates(cfg) ==
    LET base == RStripSlash(Get(cfg, "url", << >>))
        two == << base \o PathChat, base \o PathV1Chat >>
    IN IF "chat_endpoint" \in DOMAIN cfg
          /\ (base \o << "/" >> \o cfg["chat_endpoint"]) \notin { two[1], two[2] }
       THEN << base \o << "/" >> \o cfg["chat_endpoint"] >> \o two
       ELSE two

\* C9: the candidates of a record that is not the special provider are
\* {base}/chat/completions then {base}/v1/chat/completions, with {base}/{hint}
\* first when the record's chat endpoint differs from both.
C9_Candidates ==
    urls_to_try # << >> => urls_to_try = ExpectedCandidates(server_config)

\* the url holds "brave.com" in some letter case
HasMarker(url) ==
    \E i \in 1..(Len(url) - Len(MarkerBrave) + 1) :
        \A k \in 1..Len(MarkerBrave) : LowerChar(url[i + k - 1]) = MarkerBrave[k]

OnBravePath ==
    \/ pc \in { "brave_search", "brave_wait" }
    \/ Done /\ retsite \in { "L210", "L258", "L304", "L313" }

\* the conversation holds no "user" message, or the most recent one is empty
NoUserQuery(messages) ==
    LET users == { i \in 1..Len(messages) : Get(messages[i], "role", "") = "user" }
    IN \/ users = { }
       \/ \E i \in users :
             /\ \A j \in users : j <= i
             /\ Get(messages[i], "content", << >>) = << >>

\* C11: on the special-provider path, a conversation without a "user" message, or
\* whose most recent "user" message is empty, gets the "No search query found"
\* outcome, and no HTTP request is made.
C11_NoQuery ==
    (OnBravePath /\ NoUserQuery(body.messages))
        => /\ requests = << >>
           /\ pc # "brave_wait"
           /\ Done => (retsite = "L210" /\ result = MsgNoQuery)

\* C11: the relay returned "No search query found" for a conversation whose
\* earlier "user" message has a query and whose most recent one is empty
C11_Witness ==
    /\ Done
    /\ retsite = "L210"
    /\ body.messages = << UserTurn, EmptyUserTurn >>
    /\ requests = << >>

(***************************************************************************)
(* The progress sink.                                                      *)
(***************************************************************************)
\* the place of request i in its pass: the streaming requests come first
PosInPass(i) ==
    IF requests[i].stream THEN i
    ELSE i - Cardinality({ j \in 1..Len(requests) : requests[j].stream })

\* what the relay without a sink returns on the generic path, after its last request
SinkFreeOutcome ==
    /\ requests # << >>
    /\ LET last == requests[Len(requests)]
       IN IF last.stream
          THEN \/ /\ last.met = "200"
                  /\ retsite = "L374"
                  /\ result = FullResponse(resp.lines)
               \/ /\ last.met = "error"
                  /\ retsite = "L374"
                  /\ result = StreamErrorText(last.status, resp.text)
          ELSE \/ /\ last.met = "200"
                  /\ retsite = "L431"
                  /\ result = MessageContent(resp.json)
               \/ /\ last.met = "error"
                  /\ retsite = "L443"
                  /\ result = ErrorMessage(valves, last.url, last.status, resp.text)
               \/ /\ last.met \in NonTerminalMet \cup { "error_unread", "200_empty" }
                  /\ PosInPass(Len(requests)) = Len(urls_to_try)
                  /\ retsite = "L464"
                  /\ result = NoViableText(valves, Get(server_config, "url", << >>))

\* what the relay without a sink returns on the special-provider path
SinkFreeBraveOutcome ==
    IF LastUserMessage(body.messages) = << >>
    THEN requests = << >> /\ retsite = "L210" /\ result = MsgNoQuery
    ELSE /\ Len(requests) = 1
         /\ LET met == requests[1].met
            IN \/ /\ met = "200"
                  /\ retsite = "L304"
                  /\ result = FormatBrave(LastUserMessage(body.messages), resp.json)
               \/ /\ met \in { "error", "404" } /\ resp.read
                  /\ retsite = "L258"
                  /\ result = BraveErrorText(resp.status, resp.text)
               \/ /\ ~resp.sent \/ ~resp.read
                  /\ retsite = "L313"
                  /\ result = BraveFailedText(valves)

\* The requests and the outcome of the relay that is given no sink: every candidate
\* of a pass is requested in list order, none is skipped, a request follows only an
\* attempt that did not end the relay, and the outcome is the one the last answer
\* decides.
SinkFreeRelay ==
    IF is_brave_search(Get(server_config, "url", << >>))
    THEN /\ Len(requests) <= 1
         /\ Done => SinkFreeBraveOutcome
    ELSE /\ \A i \in 1..Len(requests) :
               /\ requests[i].stream => valves.stream
               /\ (valves.stream /\ i = 1) => requests[i].stream
               /\ \A j \in 1..(i - 1) : requests[i].stream => requests[j].stream
               /\ PosInPass(i) \in 1..Len(urls_to_try)
               /\ requests[i].url = urls_to_try[PosInPass(i)]
         /\ \A i \in 1..(Len(requests) - 1) :
               \/ requests[i].met \in NonTerminalMet \cup { "error_unread" }
               \/ ~requests[i].stream /\ requests[i].met = "200_empty"
               \/ requests[i].stream /\ ~requests[i + 1].stream /\ requests[i].met = "200"
         /\ Done => SinkFreeOutcome

\* C12: the progress sink is observational: whatever sink is supplied, the relay
\* issues the requests and returns the outcome of the relay that is given no sink.
C12_Observational == SinkFreeRelay

\* C13: every failure inside a relay invocation, a failing progress sink included,
\* ends in a returned outcome text: no exception leaves Pipe.pipe.
C13_NoEscape == Done => (retsite # "raised" /\ result # NoResult)

(***************************************************************************)
(* The order of the requests.                                              *)
(***************************************************************************)
\* the place of a url in the candidate list
CandidateIndex(url) == CHOOSE k \in 1..Len(urls_to_try) : urls_to_try[k] = url

\* at most one request is outstanding, and it is the one issued last
OneOutstanding ==
    \A i \in 1..Len(requests) : requests[i].met = "pending" => i = Len(requests)

\* what an attempt that failed without ending the relay has met: a 404, a transport
\* failure, a body that could not be read, a 200 answer without choices
FailedNonTerminal == NonTerminalMet \cup { "error_unread", "200_empty" }

\* C15: candidates are tried one at a time: at most one request is outstanding,
\* the first request goes to the first candidate, and every later request follows
\* an attempt that completed with a failure that does not end the relay.
C15_Sequential ==
    /\ OneOutstanding
    /\ \A i \in 1..Len(requests) :
          requests[i].method = "POST"
             => IF i = 1 THEN requests[i].url = urls_to_try[1]
                ELSE requests[i - 1].met \in FailedNonTerminal

\* C16, as stated: within one relay invocation no candidate url is requested more
\* than once.
C16_Original ==
    \A i, j \in 1..Len(requests) : i < j => requests[i].url # requests[j].url

\* C16, amended: within one pass a candidate is never requested again and the
\* requests follow the list order; a url is requested a second time only by the
\* non-streaming pass that follows a streaming pass.
C16_NoRetry ==
    \A i, j \in 1..Len(requests) :
        (i < j /\ requests[i].method = "POST")
            => /\ requests[j].stream => requests[i].stream
               /\ requests[i].stream = requests[j].stream
                     => CandidateIndex(requests[i].url) < CandidateIndex(requests[j].url)
               /\ requests[i].url = requests[j].url
                     => (requests[i].stream /\ ~requests[j].stream)

\* C16: both candidates were requested in both passes, the first of the streaming
\* pass timed out and the second returned 404
C16_Witness ==
    /\ Len(requests) = 4
    /\ requests[1].met = "transport"
    /\ requests[2].met = "404"
    /\ requests[3].url = requests[1].url
    /\ requests[4].url = requests[2].url
    /\ requests[4].met = "404"
    /\ Done

(***************************************************************************)
(* Streaming normalization.                                                *)
(***************************************************************************)
\* the JSON documents that carry choices[0].delta.content, with the text they carry
ContentDocs == ("{Err}" :> TextErr) @@ ("{or:}" :> TextOrColon)

\* the line, trimmed and without a leading "data: "
LinePayload(line) ==
    IF StartsWith(Strip(line), PrefixData)
    THEN SubSeq(Strip(line), Len(PrefixData) + 1, Len(Strip(line)))
    ELSE Strip(line)

\* the line parses as JSON and carries choices[0].delta.content
CarriesContent(line) ==
    /\ Strip(line) # MarkerDone
    /\ \E doc \in DOMAIN ContentDocs : Strip(LinePayload(line)) = JsonText(doc)

\* the contents of the first n lines that carry one, in arrival order
RECURSIVE ContentConcat(_, _)
ContentConcat(lines, n) ==
    IF n = 0 THEN << >>
    ELSE ContentConcat(lines, n - 1)
         \o (IF CarriesContent(lines[n])
             THEN ContentDocs[Strip(LinePayload(lines[n]))[1]]
             ELSE << >>)

\* the result text is the concatenation of the contents of the lines that carry one
NormalizedText ==
    /\ full_response = ContentConcat(body_lines, Len(body_lines))
    /\ full_response = FullResponse(body_lines)

\* C17: for any sequence of body lines the result text is the concatenation, in
\* arrival order, of choices[0].delta.content of the lines that parse as JSON and
\* carry it, and no line aborts the stream.
C17_Normalization == stream_state # "aborted" /\ NormalizedText

(***************************************************************************)
(* Special-provider normalization.                                         *)
(***************************************************************************)
\* the first place at or after from where p occurs in s, 0 when there is none
Find(s, p, from) ==
    LET places == { k \in from..(Len(s) - Len(p) + 1) : SubSeq(s, k, k + Len(p) - 1) = p }
    IN IF places = { } THEN 0 ELSE CHOOSE k \in places : \A m \in places : k <= m

\* the pieces occur in s one after the other, from the place from on
RECURSIVE InOrder(_, _, _)
InOrder(s, pieces, from) ==
    \/ pieces = << >>
    \/ /\ Find(s, pieces[1], from) > 0
       /\ InOrder(s, Tail(pieces), Find(s, pieces[1], from) + Len(pieces[1]))

\* the results of a section of the document
SectionResults(search_results, key) ==
    IF key \in DOMAIN search_results /\ "results" \in DOMAIN search_results[key]
    THEN search_results[key]["results"]
    ELSE << >>

\* the numbered headings of a section, "### 1. {title}" onwards, with their urls
Headings(results) ==
    [i \in 1..Len(results) |->
        MsgEntry \o NumStr(i) \o MsgDotSpace \o Get(results[i], "title", DefaultTitle)
        \o MsgNewline \o Get(results[i], "description", DefaultDescription) \o MsgNewline
        \o MsgUrl \o Get(results[i], "url", << >>)]

\* C18: for a 200 answer of the special provider the result text has the web
\* results first and the news results after them, each section in the order of
\* its results, the entries of a section numbered from 1.
C18_BraveOrder ==
    (Done /\ retsite = "L304")
        => LET web == SectionResults(resp.json, "web")
               news == SectionResults(resp.json, "news")
           IN /\ InOrder(result,
                         (IF "web" \in DOMAIN resp.json THEN << MsgWebResults >> ELSE << >>)
                         \o Headings(web)
                         \o (IF "news" \in DOMAIN resp.json THEN << MsgNewsResults >> ELSE << >>)
                         \o Headings(news),
                         1)
              /\ Find(result, MsgEntry \o << "0" >>, 1) = 0
              /\ StartsWith(result, MsgSearchHeader \o LastUserMessage(body.messages))

\* C18: results were returned for a document with two web results and a news result
C18_Witness ==
    /\ Done
    /\ retsite = "L304"
    /\ "web" \in DOMAIN resp.json
    /\ "news" \in DOMAIN resp.json
    /\ Len(resp.json["web"]["results"]) = 2
    /\ Len(resp.json["news"]["results"]) = 1

(***************************************************************************)
(* The model of the outbound payload.                                      *)
(***************************************************************************)
\* the request body gives a model
ModelGiven == "model" \in DOMAIN body /\ body["model"] # None /\ body["model"] # << >>

\* the record's default_model, the empty text when it has none
RecordModel ==
    IF "default_model" \in DOMAIN server_config THEN server_config["default_model"] ELSE << >>

\* C19, as stated: the model sent is the model of the request body if given,
\* otherwise the server record's default_model, otherwise the empty text.
C19_Original ==
    pc = "prepared"
        => mcp_payload.model = (IF ModelGiven THEN body["model"] ELSE RecordModel)

\* C19, amended: the model sent is the model of the request body if given;
\* otherwise valves.default_model when the body has no "model" key and the valve
\* is not empty; otherwise the server record's default_model; otherwise the empty
\* text.
C19_ModelOrder ==
    pc = "prepared"
        => mcp_payload.model =
              (IF ModelGiven THEN body["model"]
               ELSE IF "model" \notin DOMAIN body /\ valves.default_model # << >>
                    THEN valves.default_model
                    ELSE RecordModel)

\* C19: a body without model, a valve default and a record default: the valve's
\* model was sent
C19_Witness ==
    /\ pc = "prepared"
    /\ "model" \notin DOMAIN body
    /\ valves.default_model = << "v", "m" >>
    /\ RecordModel = << "r", "m" >>
    /\ mcp_payload.model = << "v", "m" >>

(***************************************************************************)
(* Provider errors.                                                        *)
(***************************************************************************)
\* the relay returned a provider error: the text built from a status other than 200
ProviderErrorReturned ==
    /\ Done
    /\ requests # << >>
    /\ \/ retsite = "L443"
       \/ retsite = "L258"
       \/ retsite = "L374" /\ requests[Len(requests)].met = "error"

\* C20: every provider error the relay returns holds the HTTP status and an
\* excerpt of the response body of bounded length, whatever the length of the body.
C20_Truncated ==
    ProviderErrorReturned
        => /\ Contains(result, NumStr(resp.status))
           /\ Len(resp.text) > MaxExcerpt => ~Contains(result, resp.text)

(***************************************************************************)
(* The urls of the store.                                                  *)
(***************************************************************************)
\* the url begins with 'http://' or 'https://'
HasHttpPrefix(url) ==
    \/ StartsWith(url, << "h", "t", "t", "p", ":", "/", "/" >>)
    \/ StartsWith(url, << "h", "t", "t", "p", "s", ":", "/", "/" >>)

\* every record of the servers file has such a url
StoredUrlsHavePrefix ==
    \A server_id \in DOMAIN servers :
        /\ "url" \in DOMAIN servers[server_id]
        /\ HasHttpPrefix(servers[server_id]["url"])

\* every url of the two tables of predefined servers has the prefix
TableUrlsHavePrefix ==
    /\ \A k \in DOMAIN POPULAR_SERVERS : HasHttpPrefix(POPULAR_SERVERS[k]["url"])
    /\ \A k \in DOMAIN ACTION_POPULAR_SERVERS : HasHttpPrefix(ACTION_POPULAR_SERVERS[k]["url"])

\* the operation called last was given a url, and the url lacks the prefix
GivenUrlWithoutPrefix == call["url"] # None /\ ~HasHttpPrefix(call["url"])

\* C14: after any sequence of Pipe._add_server, Pipe._add_popular_server,
\* Action.add_server, Action.add_popular_server and Action.update_server, every
\* record of the servers file has a url that begins with 'http://' or 'https://'
\* (the urls of the predefined tables all do), and an operation given a url
\* without the prefix returns an error and leaves both files as they were.
C14_UrlValidated ==
    [][ /\ StoredUrlsHavePrefix'
        /\ TableUrlsHavePrefix
        /\ GivenUrlWithoutPrefix' =>
              /\ StartsWith(reply', << "E", "r", "r", "o", "r" >>)
              /\ servers' = servers
              /\ active_server' = active_server ]_vars

\* Action.update_server was given a new name and a url with the scheme in upper
\* case and refused it, while the file holds one record written by Pipe and one
\* written by Action
C14_Witness ==
    /\ call["op"] = "Action.update_server"
    /\ call["name"] = NameB
    /\ call["url"] = << "H", "T", "T", "P", ":", "/", "/", "a" >>
    /\ reply = MsgUrlError
    /\ \E p, a \in DOMAIN servers :
          /\ "chat_endpoint" \in DOMAIN servers[p]
          /\ "chat_endpoint" \notin DOMAIN servers[a]
          /\ servers[call["server_id"]]["name"] # NameB


(***************************************************************************)
(* Connection contexts.                                                    *)
(***************************************************************************)
\* C21: when the invocation has returned or raised, on whatever path, no client
\* session and no response it entered is still held.
C21_ContextsReleased == Done => open_contexts = << >>

\* the invocation held a session and four responses in turn, the last of which
\* raised while its body was read, and the sink then raised in the except handler
C21_Witness ==
    /\ Done
    /\ retsite = "L472"
    /\ Len(requests) = 4
    /\ \A i \in 1..4 : requests[i].met \notin { "pending", "transport" }
    /\ requests[4].met = "200_unread"

(***************************************************************************)
(* A chat turn and the commands that run during it.                        *)
(***************************************************************************)
\* the valves the turn started with: debug is off at the start of every turn
\* that is followed together with commands
ValvesAtStart == [valves EXCEPT !["debug"] = FALSE]

\* C22: the outcome of a relay invocation depends only on its request, on the
\* server record it read when it started and on the answers to its requests:
\* whatever command runs during the turn, the turn returns the text it returns
\* when it runs alone.
C22_Independent ==
    Done =>
        /\ retsite = "L443" =>
              result = ErrorMessage(ValvesAtStart, requests[Len(requests)].url,
                                    resp.status, resp.text)
        /\ retsite = "L464" =>
              result = NoViableText(ValvesAtStart, Get(server_config, "url", << >>))
        /\ retsite = "L313" => result = BraveFailedText(ValvesAtStart)
        /\ retsite = "L472" => result = FailedText(ValvesAtStart)

(***************************************************************************)
(* MCPClient.chat_completion.                                              *)
(***************************************************************************)
\* C23: chat_completion with stream false returns the response dictionary of a
\* 200 answer and raises for any other status; with stream true it returns an
\* async iterator over the body lines.
C23_ChatCompletion ==
    Done =>
        IF body["stream"]
        THEN retsite # "raised"
        ELSE IF resp.sent /\ resp.status = 200 /\ resp.read
             THEN retsite = "L195" /\ result = resp.json
             ELSE retsite = "raised"

(***************************************************************************)
(* The API key in the request.                                             *)
(***************************************************************************)
\* the api_key of the server record, empty when the record has none
RecordKey ==
    IF "api_key" \in DOMAIN server_config THEN server_config["api_key"] ELSE << >>

\* no text of the generic payload holds the key
KeyNotInBody ==
    /\ ~Contains(mcp_payload.model, RecordKey)
    /\ \A i \in DOMAIN mcp_payload.messages :
          ~Contains(mcp_payload.messages[i].content, RecordKey)

\* C24: the record's API key is sent only in the header of the path taken:
\* as "Authorization: Bearer {key}" on the generic path and as
\* "X-Subscription-Token" on the special-provider path, never in both and never in
\* the query or the body; with an empty key no authentication header is sent.
C24_KeyInProperHeader ==
    /\ pc = "prepared"
          => IF RecordKey = << >>
             THEN DOMAIN headers = { "content_type" }
             ELSE /\ DOMAIN headers = { "content_type", "authorization" }
                  /\ headers.authorization = << "B", "e", "a", "r", "e", "r", " " >> \o RecordKey
                  /\ KeyNotInBody
    /\ pc = "brave_prepared"
          => IF RecordKey = << >>
             THEN DOMAIN headers = { "content_type", "accept" }
             ELSE /\ DOMAIN headers = { "content_type", "accept", "x_subscription_token" }
                  /\ headers.x_subscription_token = RecordKey
                  /\ DOMAIN mcp_payload = { "q", "count" }
                  /\ ~Contains(mcp_payload.q, RecordKey)

\* C24: a special-provider request was prepared from a record with a key, and the
\* key is in its X-Subscription-Token header
C24_Witness ==
    /\ pc = "brave_prepared"
    /\ RecordKey = << "k" >>
    /\ headers.x_subscription_token = << "k" >>

(***************************************************************************)
(* The server a chat turn uses.                                            *)
(***************************************************************************)
\* the step that starts a chat turn, and the steps that are commands
TurnStarts == pc = "pipe" /\ pc' # "pipe"

CommandRuns == pc' = pc /\ << call, reply >>' # << call, reply >>

\* the id the claim gives the turn: valves.server_id, the active server when that
\* is empty
ClaimedId == IF valves["server_id"] # << >> THEN valves["server_id"] ELSE active_server

\* whether a turn that started now would be relayed, and the record it would
\* be relayed to
ClaimedKnown == ClaimedId \in DOMAIN servers

ClaimedRecord == servers[ClaimedId]

\* a command left the server a turn would use as it was
SameServerUsed ==
    /\ ClaimedKnown' = ClaimedKnown
    /\ ClaimedKnown => ClaimedRecord' = ClaimedRecord

\* a turn that starts is relayed to the claimed record, and returns the
\* "No MCP server selected" message when there is none
TurnUsesClaimed ==
    TurnStarts =>
        IF ClaimedKnown
        THEN pc' = "handle_chat" /\ server_config' = ClaimedRecord
        ELSE pc' = "done" /\ retsite' = "L171" /\ result' = MsgNoServer

\* C25, as stated: the server a chat turn uses is valves.server_id when that is not
\* empty and the active server otherwise, and no command changes the server used
\* while valves.server_id is not empty.
C25_Original ==
    [][/\ TurnUsesClaimed
       /\ CommandRuns /\ valves["server_id"] # << >> => SameServerUsed]_vars

\* C25, amended: the server a chat turn uses is valves.server_id when that is not
\* empty and the active server otherwise, the turn being refused when the store
\* has no record under that id; while valves.server_id is not empty a command
\* changes the server used only by deleting the record valves.server_id names,
\* after which the turn is refused.
C25_ServerUsed ==
    [][/\ TurnUsesClaimed
       /\ CommandRuns /\ valves["server_id"] # << >> =>
             \/ SameServerUsed
             \/ /\ call'["op"] = "Pipe._delete_server"
                /\ call'["server_id"] = valves["server_id"]
                /\ ClaimedKnown
                /\ ~ClaimedKnown']_vars

\* C25: a turn was relayed to the record valves.server_id names while the active
\* server was another record
C25_Witness ==
    /\ pc = "handle_chat"
    /\ valves["server_id"] = << "<uuid-1>" >>
    /\ active_server = << "<uuid-2>" >>
    /\ { << "<uuid-1>" >>, << "<uuid-2>" >> } \subseteq DOMAIN servers
    /\ servers[<< "<uuid-1>" >>] # servers[<< "<uuid-2>" >>]
    /\ server_config = servers[<< "<uuid-1>" >>]

(***************************************************************************)
(* The commands of Pipe that write the store.                              *)
(***************************************************************************)
\* the step is a run of the command op
Runs(op) == CommandRuns /\ call'["op"] = op

\* the records the step found in the store are as they were
OtherRecordsKept == \A k \in DOMAIN servers \cap DOMAIN servers' : servers'[k] = servers[k]

\* the step left the two files as they were
StoreKept == servers' = servers /\ active_server' = active_server

\* the reply of a command that did what it was asked: "MCP server '...", "Now using ..."
Succeeded(r) ==
    \/ StartsWith(r, << "M", "C", "P", " ", "s", "e", "r", "v", "e", "r", " ", "'" >>)
    \/ StartsWith(r, << "N", "o", "w", " ", "u", "s", "i", "n", "g", " " >>)

\* the reasons for which an add is refused: an invalid URL, an unknown predefined
\* id, a missing required API key
AddRefused(c) ==
    IF c["op"] = "Pipe._add_server"
    THEN ~HasHttpPrefix(c["url"])
    ELSE LET id == c["server_id"][1]
         IN  \/ id \notin DOMAIN POPULAR_SERVERS
             \/ POPULAR_SERVERS[id]["needs_api_key"] /\ c["api_key"] = << >>

\* the step stored the record of the add under an id the store never had and
\* made that id the active server
AddedAndActive ==
    \E id \in DOMAIN servers' \ issued :
        /\ DOMAIN servers' = DOMAIN servers \cup { id }
        /\ OtherRecordsKept
        /\ active_server' = id
        /\ servers'[id]["api_key"] = call'["api_key"]
        /\ IF call'["op"] = "Pipe._add_server"
           THEN servers'[id]["name"] = call'["name"] /\ servers'[id]["url"] = call'["url"]
           ELSE LET info == POPULAR_SERVERS[call'["server_id"][1]]
                IN  servers'[id]["name"] = info["name"] /\ servers'[id]["url"] = info["url"]

\* C26: a successful "/mcp add" or "/mcp addp" stores the new record under a fresh
\* id and makes that id the active server, so that with valves.server_id empty the
\* next chat turn is relayed to the new record; an add refused for an invalid URL,
\* an unknown predefined id or a missing required API key changes neither the
\* store nor the active server.
C26_AddSetsActive ==
    [][/\ Runs("Pipe._add_server") \/ Runs("Pipe._add_popular_server") =>
             /\ Succeeded(reply') = ~AddRefused(call')
             /\ IF Succeeded(reply') THEN AddedAndActive ELSE StoreKept
       /\ /\ TurnStarts
          /\ call["op"] \in { "Pipe._add_server", "Pipe._add_popular_server" }
          /\ Succeeded(reply)
          /\ valves["server_id"] = << >>
          => /\ pc' = "handle_chat"
             /\ server_config' = servers[active_server]
             /\ server_config'["api_key"] = call["api_key"]]_vars

\* C26: with valves.server_id empty and another record in the store, a turn was
\* relayed to the Brave Search record that "/mcp addp brave_search k" had just added
C26_Witness ==
    /\ pc = "handle_chat"
    /\ valves["server_id"] = << >>
    /\ call["op"] = "Pipe._add_popular_server"
    /\ call["server_id"] = << "brave_search" >>
    /\ Cardinality(DOMAIN servers) = 2
    /\ server_config["name"] = POPULAR_SERVERS["brave_search"]["name"]
    /\ server_config = servers[active_server]

\* C27: after any sequence of the Pipe commands add, addp, delete and use, run one
\* after another, the active server is the empty string or the id of a record of
\* the servers file.
C27_ActiveInStore == active_server = << >> \/ active_server \in DOMAIN servers

\* C27: the active server was deleted while another record stayed in the store,
\* and the active server is now empty
C27_Witness ==
    /\ call["op"] = "Pipe._delete_server"
    /\ Contains(reply, << "T", "h", "i", "s", " ", "w", "a", "s", " ", "y", "o", "u", "r" >>)
    /\ call["server_id"] \notin DOMAIN servers
    /\ Cardinality(DOMAIN servers) = 1
    /\ active_server = << >>

\* C28: _delete_server removes exactly the record named and leaves every other
\* record unchanged; it empties the active server if and only if the record
\* deleted was the active one, and otherwise leaves it unchanged; with an unknown
\* id it returns an error and changes neither the store nor the active server.
C28_DeleteFrame ==
    [][Runs("Pipe._delete_server") =>
          LET server_id == call'["server_id"]
          IN  IF server_id \in DOMAIN servers
              THEN /\ DOMAIN servers' = DOMAIN servers \ { server_id }
                   /\ OtherRecordsKept
                   /\ active_server' = (IF server_id = active_server THEN << >>
                                        ELSE active_server)
                   /\ ~StartsWith(reply', << "E", "r", "r", "o", "r" >>)
              ELSE /\ StartsWith(reply', << "E", "r", "r", "o", "r" >>)
                   /\ StoreKept]_vars

\* C28: with two records in the store, the one that was not active was deleted:
\* the other record and the active server are as they were
C28_Witness ==
    /\ call["op"] = "Pipe._delete_server"
    /\ call["server_id"] \in issued \ DOMAIN servers
    /\ ~Contains(reply, << "T", "h", "i", "s", " ", "w", "a", "s", " ", "y", "o", "u", "r" >>)
    /\ ~StartsWith(reply, << "E", "r", "r", "o", "r" >>)
    /\ Cardinality(DOMAIN servers) = 1
    /\ active_server \in DOMAIN servers

\* C29: _use_server with an id that is not in the servers file returns an error
\* and leaves the active server and the store unchanged; with a known id it makes
\* that id the active server and leaves the store unchanged.
C29_UseKnownOnly ==
    [][Runs("Pipe._use_server") =>
          /\ servers' = servers
          /\ IF call'["server_id"] \in DOMAIN servers
             THEN /\ active_server' = call'["server_id"]
                  /\ ~StartsWith(reply', << "E", "r", "r", "o", "r" >>)
             ELSE /\ active_server' = active_server
                  /\ StartsWith(reply', << "E", "r", "r", "o", "r" >>)]_vars

\* C29: a use with an id that no record has was refused while another server
\* was active
C29_Witness ==
    /\ call["op"] = "Pipe._use_server"
    /\ call["server_id"] = UnknownId
    /\ StartsWith(reply, << "E", "r", "r", "o", "r" >>)
    /\ active_server \in DOMAIN servers

(***************************************************************************)
(* A chat turn without a server.                                           *)
(***************************************************************************)
\* C30: a chat turn whose resolved server id is empty or is not a key of the
\* servers file returns the "No MCP server selected" message without any HTTP
\* request and without calling the progress sink; a turn is relayed only to a
\* record that is in the store when the turn starts.
C30_NoServerNoRequest ==
    /\ ~ClaimedKnown =>
          /\ requests = << >>
          /\ ~sink_called
          /\ pc \in { "pipe", "done" }
          /\ pc = "done" => retsite = "L171" /\ result = MsgNoServer
    /\ pc # "pipe" /\ (requests # << >> \/ sink_called \/ retsite # "L171") =>
          ClaimedKnown /\ server_config = ClaimedRecord

\* C30: with a progress sink given, valves.server_id naming no record and an
\* active server that has one, the turn returned the message
C30_Witness ==
    /\ Done
    /\ retsite = "L171"
    /\ sink = "ok"
    /\ valves["server_id"] = UnknownId
    /\ active_server \in DOMAIN servers
    /\ requests = << >>
    /\ ~sink_called

(***************************************************************************)
(* Commands are not relayed.                                               *)
(***************************************************************************)
\* the content of the last message is "/mcp" or begins with "/mcp "
LastIsCommand ==
    /\ "messages" \in DOMAIN body
    /\ body["messages"] # << >>
    /\ "content" \in DOMAIN body["messages"][Len(body["messages"])]
    /\ LET content == body["messages"][Len(body["messages"])]["content"]
       IN  \/ content = << "/", "m", "c", "p" >>
           \/ StartsWith(content, << "/", "m", "c", "p", " " >>)

\* C31: when the content of the last message is "/mcp" or begins with "/mcp ",
\* Pipe.pipe handles it as a command and performs no relay: no HTTP request is
\* made, the chat handler is not entered and the progress sink is not called.
C31_CommandNotRelayed ==
    LastIsCommand =>
        /\ pc = "pipe_entry"
        /\ requests = << >>
        /\ ~sink_called
        /\ result = NoResult
        /\ open_contexts = << >>

\* C31: "/mcp delete <uuid-1>" was handled while <uuid-1> was the active server:
\* the record is gone, the reply says so, and no request was made
C31_Witness ==
    /\ LastIsCommand
    /\ call["op"] = "Pipe._delete_server"
    /\ call["server_id"] = << "<uuid-1>" >>
    /\ << "<uuid-1>" >> \notin DOMAIN servers
    /\ Contains(reply, << "d", "e", "l", "e", "t", "e", "d" >>)
    /\ requests = << >>

(***************************************************************************)
(* The number of requests of an invocation.                                *)
(***************************************************************************)
\* the number of candidate urls of the generic path: each pass tries each once
CandidateCount == 2

\* at most 1 request on the special-provider path, at most 2 on the generic path
\* when streaming is disabled and at most 4 when it is enabled, of which at most 2
\* are streaming requests and these come first
RequestBound ==
    IF OnBravePath THEN Len(requests) <= 1
    ELSE /\ Len(requests) <= (IF valves.stream THEN 2 * CandidateCount ELSE CandidateCount)
         /\ Cardinality({ i \in DOMAIN requests : requests[i].stream }) <= CandidateCount
         /\ Cardinality({ i \in DOMAIN requests : ~requests[i].stream }) <= CandidateCount
         /\ \A i, j \in DOMAIN requests :
               requests[i].stream /\ ~requests[j].stream => i < j

\* the invocation found a query and did not end in the except handler of the
\* special-provider path before its request: a sink that raised, a request that
\* could not be sent
QuerySent == LastUserMessage(body.messages) # << >> /\ (retsite = "L313" => requests # << >>)

AbortContinues ==
    pc = "streaming_wait" /\ stream_state = "aborted"
        => pc' = "try_streaming" /\ idx' = idx + 1 /\ result' = result

\* a text the streaming pass returned from a body is the text of the lines of the
\* one candidate whose body was read to its end
ResultOfOneCandidate ==
    Done /\ retsite = "L374" /\ requests[Len(requests)].met = "200"
        => result = FullResponse(body_lines)

\* the first candidate delivered content and broke off, the second one was
\* read to its end and its text returned
AbortedThenReturned ==
    /\ Done /\ retsite = "L374" /\ Len(requests) = 2
    /\ requests[1].met = "200_unread" /\ requests[2].met = "200"
    /\ result = TextOrColon

\* C33: when a streaming candidate answered 200 and the transport fails while its
\* body is read, the text accumulated from it is dropped, the relay goes on to the
\* next candidate, and the returned text holds nothing of an aborted stream and
\* the text of no more than one candidate.
C33_AbortDiscarded == [][AbortContinues]_vars /\ []ResultOfOneCandidate

(***************************************************************************)
(* A stream without content.                                               *)
(***************************************************************************)
\* the streaming candidate answers 200 and its body is read to its end without
\* a chunk that carries content
EmptyStreamAnswered ==
    /\ pc = "streaming_wait"
    /\ resp'.sent /\ resp'.status = 200 /\ resp'.read
    /\ FullResponse(resp'.lines) = << >>

\* the relay returns the empty text from the streaming pass, no request with
\* stream false was or will be made
EmptyTextReturned ==
    /\ pc' = "done" /\ result' = << >> /\ retsite' = "L374"
    /\ \A i \in DOMAIN requests' : requests'[i].stream

\* C34: when a streaming candidate answers 200 and its body ends without any
\* chunk carrying delta content, the relay returns the empty string as its
\* successful result and does not run the non-streaming pass.
C34_EmptyIsSuccess == [][EmptyStreamAnswered => EmptyTextReturned]_vars

(***************************************************************************)
(* The iterator of the package Pipe.                                       *)
(***************************************************************************)
\* the iterator has been handed out and can still be asked for a line
IteratorReadable == pc = "iterating" /\ stream_state = "reading"

\* the session and the response the iterator reads from are held open
ContextsOpen ==
    /\ \E i \in DOMAIN open_contexts : open_contexts[i] = "session"
    /\ \E i \in DOMAIN open_contexts : open_contexts[i] = "response"

\* C35: the iterator _handle_streaming_request returns for a 200 response reads
\* body lines only while the response and the client session are open: every read
\* of the caller comes before the two contexts are released.
C35_ReadsWhileOpen == IteratorReadable => ContextsOpen

(***************************************************************************)
(* The model IDs of the package Pipe.                                      *)
(***************************************************************************)
\* pipe() was called with the id of an entry pipes() listed for a model of a server
ListedModelAsked == pc \in { "done", "pkg_dispatch" } /\ call["model_id"] # None

\* pipe() found the server the entry was listed for and forwards the model id
\* the entry was listed for
ResolvedAsListed ==
    /\ pc = "pkg_dispatch"
    /\ server_config = servers[call["server"]]
    /\ mcp_payload["model"] = call["model_id"]

\* the listed id holds 'error' nowhere, the key of its server holds neither '.'
\* nor 'mcp_', and no server before it in the list has the same key
PlainEntry ==
    /\ ~Contains(call["id"], TextError)
    /\ LET key == ServerKey(servers[call["server"]]["name"])
       IN /\ ~Contains(key, << "." >>)
          /\ ~Contains(key, PrefixMcp)
          /\ \A j \in 1..(call["server"] - 1) : ServerKey(servers[j]["name"]) # key

\* the round trip of the plain entries
PlainRoundTrip == ListedModelAsked /\ PlainEntry => ResolvedAsListed

\* C36: model IDs round-trip: for every configured server and every model ID that
\* pipes() lists as 'mcp_{server}.{model_id}', pipe() called with the listed ID
\* resolves to the same server record and forwards exactly that model_id, also
\* when the server name or the model ID holds 'mcp_', 'error' or '.'.
C36_RoundTrip == ListedModelAsked => ResolvedAsListed

(***************************************************************************)
(* The store and the copies of it.                                         *)
(***************************************************************************)
\* a method of the Action returns to caller p in this step
ActionReturns(p) ==
    /\ call'[p] # call[p]
    /\ call'[p].step = "idle"
    /\ call'[p].op \in ActionOps

\* an error return of the Action leaves the servers file as it was
ErrorKeepsFile ==
    \A p \in Callers :
        ActionReturns(p) /\ call'[p].returned = "error" => servers' = servers

\* when a method of the Action returns, self.servers is what the servers file
\* holds, and after an error both are what the file held before
MemoryIsFile ==
    \A p \in Callers :
        ActionReturns(p) =>
            /\ call'[p].self_servers = servers'
            /\ call'[p].returned = "error" =>
                  servers' = servers /\ call'[p].self_servers = servers

\* C37: Action.update_server is all-or-nothing: when it returns an error none of
\* the other supplied fields is applied, neither in the persisted store nor in
\* the Action's in-memory servers, so that the in-memory copy equals the
\* persisted store after every operation.
C37_AllOrNothing == [][MemoryIsFile]_vars

\* no caller is inside an operation
Quiescent == \A p \in Callers : call[p].step = "idle"

\* every record whose add returned its success message, and which no delete was
\* asked to remove, is in the servers file
NoAddLost ==
    Quiescent =>
        \A p \in Callers :
            \A server_id \in call[p].added \ (call[1].removed \cup call[2].removed) :
                server_id \in DOMAIN servers

\* the active server names a record of the servers file
ActiveStillStored ==
    Quiescent /\ active_server # << >> => active_server \in DOMAIN servers

\* C38: no update of the persisted store is lost when the store-mutating
\* operations of the Pipe and of the Action run concurrently on the same files:
\* after two concurrent successful adds both records are in the store, and the
\* active server still names a record present in the store.
C38_NoLostUpdate == NoAddLost /\ ActiveStillStored
====
